---- MODULE Spec2Model ----
(***************************************************************************)
(* The authorization endpoint of oidcendpoint                              *)
(* (src/src/oidcendpoint/oidc/authorization.py) as a state machine.        *)
(*                                                                         *)
(* Python dicts and oidcmsg Messages are functions whose DOMAIN is the set *)
(* of keys that are present; an optional value that is not a dict member   *)
(* is a sequence of length 0 (Python None) or 1.                           *)
(***************************************************************************)
EXTENDS Naturals, Sequences, FiniteSets, TLC

VARIABLES
    cdb,            \* endpoint_context.cdb: client_id -> client record
    provider_info,  \* endpoint_context.provider_info (the keys the endpoint reads)
    authn_broker,   \* endpoint_context.authn_broker: the registered (method, acr)
    sdb,            \* endpoint_context.sdb: sequence of session records, sid = index
    request,        \* the authorization request handed to the operation
    parsed,         \* what _post_parse_request returned for it
    result,         \* what the last operation returned (or raised)
    trace,          \* the collaborator calls the last process_request made
    pc              \* position of the request in its lifecycle

vars == <<cdb, provider_info, authn_broker, sdb, request, parsed, result, trace, pc>>

-----------------------------------------------------------------------------
(* Bounds of the model *)

\* longest query string of a request redirect URI, in components
MaxQueryLen == 2
\* most (base, query) pairs a client has registered
MaxRegistered == 2
\* most response types in one request
MaxResponseTypes == 2
\* most response_types strings a client has registered
MaxRegisteredTypes == 2

-----------------------------------------------------------------------------
(* Python values *)

None == <<>>
Some(v) == <<v>>
EmptyDict == <<>>

\* dict.get / "key in dict"
Has(d, k) == k \in DOMAIN d

\* every sequence over S of length at most n
SeqsUpTo(S, n) == UNION {[1..k -> S] : k \in 0..n}

SeqToSet(s) == {s[i] : i \in DOMAIN s}

-----------------------------------------------------------------------------
(* Redirect URIs.  A raw URI string is base ["?" query] ["#" fragment];    *)
(* quoted says that its delimiters are percent-encoded in the raw string.  *)

Bases == {"https://rp/cb", "https://rp/other"}
QueryKeys == {"a"}
\* values of a query component; "" is a blank value (key= or a bare key)
QueryVals == {"", "1", "2"}
QueryPairs == QueryKeys \X QueryVals
Fragments == {"", "frag"}

\* query: None when the URI has no "?", else the components after it
URIs ==
    [base : Bases, query : {None} \cup {Some(q) : q \in SeqsUpTo(QueryPairs, MaxQueryLen)},
     fragment : Fragments, quoted : BOOLEAN]

\* urllib.parse.unquote: percent-decoding exposes the delimiters
unquote(uri) == [uri EXCEPT !.quoted = FALSE]

\* urlparse(uri).fragment: a quoted "#" is part of the path
urlparse_fragment(uri) == IF uri.quoted THEN "" ELSE uri.fragment

\* urllib.parse.splitquery: (base, None) without "?", else (base, query string);
\* a quoted "?" does not split
splitquery(uri) ==
    IF uri.quoted \/ uri.query = None
    THEN [base |-> uri.base, query |-> [kind |-> "None", str |-> <<>>]]
    ELSE [base |-> uri.base, query |-> [kind |-> "str", str |-> uri.query[1]]]

\* urllib.parse.parse_qs with its defaults: key -> values, blank values dropped
parse_qs(qs) ==
    LET keep == {i \in DOMAIN qs : qs[i][2] # ""}
        keys == {qs[i][1] : i \in keep}
    IN  [k \in keys |-> {qs[i][2] : i \in {j \in keep : qs[j][1] = k}}]

\* lines 100-102: _query stays None or '' when falsy, else becomes the parsed dict
split_and_parse(uri) ==
    LET sq == splitquery(uri)
    IN  IF sq.query.kind = "str" /\ sq.query.str # <<>>
        THEN [base |-> sq.base, query |-> [kind |-> "dict", d |-> parse_qs(sq.query.str)]]
        ELSE [base |-> sq.base, query |-> [kind |-> sq.query.kind, d |-> EmptyDict]]

\* Python truth value of _query (None, '' and {} are false)
query_truthy(q) == q.kind = "dict" /\ DOMAIN q.d # {}

\* lines 112-116: the asserts over the registered query; the exception raised, or "ok"
registered_in_request(rquery, q) ==
    IF rquery = None \/ DOMAIN rquery[1] = {} THEN "ok"
    ELSE IF q.kind = "None" THEN "TypeError"
    ELSE IF \A k \in DOMAIN rquery[1] :
                k \in DOMAIN q.d /\ rquery[1][k] \subseteq q.d[k]
         THEN "ok" ELSE "AssertionError"

\* lines 119-125: the asserts over the request query
request_in_registered(rquery, q) ==
    IF ~query_truthy(q) THEN "ok"
    ELSE IF rquery = None THEN "ValueError"
    ELSE IF \A k \in DOMAIN q.d :
                k \in DOMAIN rquery[1] /\ q.d[k] \subseteq rquery[1][k]
         THEN "ok" ELSE "AssertionError"

\* lines 104-127: the loop over the registered pairs; "match", "no_match" or the
\* exception that left the loop
RECURSIVE match_loop(_, _, _)
match_loop(regs, base, q) ==
    IF regs = <<>> THEN "no_match"
    ELSE LET regbase == Head(regs)[1]
             rquery == Head(regs)[2]
         IN  IF base = regbase
             THEN IF registered_in_request(rquery, q) # "ok"
                  THEN registered_in_request(rquery, q)
                  ELSE IF request_in_registered(rquery, q) # "ok"
                       THEN request_in_registered(rquery, q)
                       ELSE "match"
             ELSE match_loop(Tail(regs), base, q)

\* lines 93-131: the try block; "None" for the normal return, else the exception
verify_try(db, req) ==
    IF ~Has(req, "redirect_uri") THEN "KeyError"
    ELSE LET uri == unquote(req["redirect_uri"])
             sp  == split_and_parse(uri)
         IN  IF urlparse_fragment(uri) # "" THEN "URIError"
             ELSE IF ~Has(req, "client_id") \/ ~Has(db, req["client_id"]) THEN "KeyError"
             ELSE LET m == match_loop(db[req["client_id"]]["redirect_uris"],
                                      sp.base, sp.query)
                  IN  IF m = "match" THEN "None"
                      ELSE IF m = "no_match" THEN "RedirectURIError"
                      ELSE m

\* verify_redirect_uri: "None" when it returns, else the class of the exception
\* that the handler of lines 132-148 raises
verify_redirect_uri(db, req) ==
    IF verify_try(db, req) = "None" THEN "None"
    ELSE IF ~Has(req, "redirect_uri") THEN "KeyError"
    ELSE IF ~Has(req, "client_id") \/ ~Has(db, req["client_id"]) THEN "UnknownClient"
    ELSE "RedirectURIError"

\* get_redirect_uri: the uri, or the exception raised
get_redirect_uri(db, req) ==
    IF Has(req, "redirect_uri")
    THEN IF verify_redirect_uri(db, req) = "None"
         THEN [raised |-> "", uri |-> Some(req["redirect_uri"])]
         ELSE [raised |-> verify_redirect_uri(db, req), uri |-> None]
    ELSE [raised |-> "ParameterError", uri |-> None]

-----------------------------------------------------------------------------
(* Messages.  An object is its class and its dict. *)

Obj(cls, d) == [cls |-> cls, d |-> d]

\* AuthorizationErrorResponse(error=..., error_description=...); a description is
\* the sequence of the parts that str.format joins
AuthorizationErrorResponse(error, description) ==
    Obj("AuthorizationErrorResponse",
        ("error" :> error) @@ ("error_description" :> description))

isinstance(o, cls) == o.cls = cls

-----------------------------------------------------------------------------
(* Response types *)

\* str.split(' ') on the response_types strings a client can have registered
split(rt) ==
    CASE rt = "code" -> <<"code">>
      [] rt = "token" -> <<"token">>
      [] rt = "id_token" -> <<"id_token">>
      [] rt = "none" -> <<"none">>
      [] rt = "code token" -> <<"code", "token">>
      [] rt = "token code" -> <<"token", "code">>
      [] rt = "code id_token" -> <<"code", "id_token">>
      [] rt = "id_token token" -> <<"id_token", "token">>
      [] rt = "code id_token token" -> <<"code", "id_token", "token">>
      [] rt = "code device" -> <<"code", "device">>
      [] rt = "device" -> <<"device">>
      [] rt = "code none" -> <<"code", "none">>

\* verify_response_type accepting a request that contains a registered set
verify_response_type_subset(req, cinfo) ==
    LET registered ==
            IF Has(cinfo, "response_types")
            THEN {SeqToSet(split(cinfo["response_types"][i])) :
                      i \in DOMAIN cinfo["response_types"]}
            ELSE {{"code"}}
    IN  \E S \in registered : S \subseteq SeqToSet(req["response_type"])

\* Authorization.verify_response_type
verify_response_type(req, cinfo) ==
    LET registered ==
            IF Has(cinfo, "response_types")
            THEN {SeqToSet(split(cinfo["response_types"][i])) :
                      i \in DOMAIN cinfo["response_types"]}
            ELSE {{"code"}}
    IN  SeqToSet(req["response_type"]) \in registered

\* _post_parse_request that looks at the redirect URI before the response type
post_parse_request_uri_first(req, client_id, db) ==
    IF req = EmptyDict
    THEN AuthorizationErrorResponse("invalid_request", <<"Can not parse AuthzRequest">>)
    ELSE IF ~Has(db, client_id)
    THEN AuthorizationErrorResponse("unauthorized_client", <<"unknown client">>)
    ELSE LET r == get_redirect_uri(db, req)
         IN  IF r.raised # ""
             THEN AuthorizationErrorResponse("invalid_request",
                                             <<r.raised, ":", "redirect_uri">>)
             ELSE IF ~verify_response_type(req, db[client_id])
             THEN AuthorizationErrorResponse("invalid_request",
                                             <<"Trying to use unregistered response_typ">>)
             ELSE Obj("AuthorizationRequest",
                      ("redirect_uri" :> r.uri[1]) @@ req)

\* Authorization._post_parse_request: the error response, or the request with its
\* verified redirect_uri
post_parse_request(req, client_id, db) ==
    IF req = EmptyDict
    THEN AuthorizationErrorResponse("invalid_request", <<"Can not parse AuthzRequest">>)
    ELSE IF ~Has(db, client_id)
    THEN AuthorizationErrorResponse("unauthorized_client", <<"unknown client">>)
    ELSE IF ~verify_response_type(req, db[client_id])
    THEN AuthorizationErrorResponse("invalid_request",
                                    <<"Trying to use unregistered response_typ">>)
    ELSE LET r == get_redirect_uri(db, req)
         IN  IF r.raised # ""
             THEN AuthorizationErrorResponse("invalid_request",
                                             <<r.raised, ":", "redirect_uri">>)
             ELSE Obj("AuthorizationRequest",
                      ("redirect_uri" :> r.uri[1]) @@ req)

-----------------------------------------------------------------------------
(* The session store (endpoint_context.sdb).  A session id is the index of *)
(* its record.                                                             *)

\* most sessions the store holds
MaxSessions == 2

CodeOf(sid) == "code_" \o ToString(sid)
TokenOf(sid) == "token_" \o ToString(sid)
RefreshOf(sid) == "refresh_" \o ToString(sid)

\* sdb.create_authz_session(authn_event, request, client_id) and sdb.do_sub: a
\* new record under a fresh sid, with its authorization code issued
setup_session(db, req, authn_event) ==
    Append(db, [uid |-> authn_event.uid,
                authn_time |-> authn_event.authn_time,
                code |-> Some(CodeOf(Len(db) + 1)),
                access_token |-> None,
                refresh_token |-> None,
                permission |-> None,
                revoked |-> FALSE])

\* sdb.update(sid, code=None)
update_code_none(db, sid) == [db EXCEPT ![sid].code = None]

\* sdb.update(sid, permission=permission)
update_permission(db, sid, permission) == [db EXCEPT ![sid].permission = Some(permission)]

\* upgrade_to_token asked for a refresh token
issue_refresh_true == TRUE

\* lines 236-237: the issue_refresh argument of upgrade_to_token
issue_refresh == FALSE

\* sdb.upgrade_to_token(issue_refresh=..., key=sid): the stored session
upgrade_to_token(db, sid) ==
    [db EXCEPT ![sid].access_token = Some(TokenOf(sid)),
               ![sid].refresh_token = IF issue_refresh THEN Some(RefreshOf(sid)) ELSE None]

\* the dict upgrade_to_token returns: the token fields, the refresh token if one
\* was asked for, and the store's own bookkeeping, among it the client_id it
\* recorded
upgrade_dic(db, sid) ==
    ("access_token" :> Some(TokenOf(sid))) @@ ("token_type" :> Some("Bearer"))
        @@ ("refresh_token" :> IF issue_refresh THEN Some(RefreshOf(sid)) ELSE None)
        @@ ("oauth_state" :> Some("token"))
        @@ ("client_id" :> Some("recorded"))

\* sdb.is_session_revoked(sid)
is_session_revoked(db, sid) == db[sid].revoked

-----------------------------------------------------------------------------
(* create_authn_response *)

\* AuthorizationResponse.parameters()
ResponseParameters ==
    {"code", "state", "iss", "client_id", "access_token", "token_type",
     "expires_in", "refresh_token", "scope", "id_token", "session_state"}

\* the copy loop with the None test turned round
copy_token_fields_none_only(aresp, dic) ==
    LET keys == {k \in DOMAIN dic : k \in ResponseParameters /\ dic[k] = None}
    IN  [k \in keys |-> dic[k]] @@ aresp

\* lines 240-242: the non-None fields of _dic that are response parameters
copy_token_fields(aresp, dic) ==
    LET keys == {k \in DOMAIN dic : k \in ResponseParameters /\ dic[k] # None}
    IN  [k \in keys |-> dic[k][1]] @@ aresp

\* lines 252-261: the keyword arguments handed to make_idtoken
idtoken_kwargs(req, rtype, code, access_token) ==
    LET hash_inputs ==
            IF {"code", "id_token", "token"} \subseteq rtype
            THEN ("code" :> code) @@ ("access_token" :> access_token)
            ELSE IF {"code", "id_token"} \subseteq rtype
            THEN "code" :> code
            ELSE IF {"id_token", "token"} \subseteq rtype
            THEN "access_token" :> access_token
            ELSE EmptyDict
    IN  IF req["response_type"] = <<"id_token">>
        THEN ("user_claims" :> Some("True")) @@ hash_inputs
        ELSE hash_inputs

\* fragment_enc that is false whenever code is among the response types
fragment_enc_of_any_code(req) ==
    IF Has(req, "response_type") /\ req["response_type"] = <<"none">>
    THEN FALSE
    ELSE ~("code" \in SeqToSet(req["response_type"]))

\* lines 210-226: the fragment_enc flag
fragment_enc_of(req) ==
    IF Has(req, "response_type") /\ req["response_type"] = <<"none">>
    THEN FALSE
    ELSE ~(Cardinality(SeqToSet(req["response_type"])) = 1
           /\ "code" \in SeqToSet(req["response_type"]))

ResponseInfo(args, fragment_enc) ==
    ("response_args" :> args) @@ ("fragment_enc" :> fragment_enc)

\* the error response of a failed minting, built on the response so far
mint_failure_on_response(aresp, fragment_enc) ==
    ResponseInfo(Obj("AuthorizationErrorResponse",
                     ("error" :> "invalid_request")
                     @@ ("error_description" :> <<"Could not sign/encrypt id_token">>)
                     @@ aresp),
                 fragment_enc)

\* lines 265-270: the dict returned when make_idtoken raises
mint_failure(aresp, fragment_enc) ==
    ResponseInfo(AuthorizationErrorResponse("invalid_request",
                                            <<"Could not sign/encrypt id_token">>),
                 fragment_enc)

\* create_authn_response(endpoint, request, sid); mint_ok says whether
\* make_idtoken returns or raises JWEException / NoSuitableSigningKeys.
\* info is the dict returned, sdb the store afterwards, sinfo the id_token put on
\* _sinfo (None when none was).
create_authn_response(req, sid, db, mint_ok) ==
    LET aresp0 == IF Has(req, "state") THEN "state" :> req["state"] ELSE EmptyDict
        rtype == SeqToSet(req["response_type"])
        fragment_enc == fragment_enc_of(req)
        handled == {t \in {"code", "token", "id_token"} : t \in rtype}
        code == IF "code" \in rtype THEN db[sid].code ELSE None
        \* lines 276-283
        finish(aresp, db2, id_token) ==
            IF rtype \ handled # {}
            THEN [info |-> ResponseInfo(
                               AuthorizationErrorResponse("invalid_request",
                                   <<"unsupported_response_type">>),
                               fragment_enc),
                  sdb |-> db2, sinfo |-> id_token]
            ELSE [info |-> ResponseInfo(Obj("AuthorizationResponse", aresp), fragment_enc),
                  sdb |-> db2, sinfo |-> id_token]
        \* lines 272-274
        minted(aresp, db2, id_token) ==
            finish(("id_token" :> id_token) @@ aresp, db2, Some(id_token))
        \* lines 246-270
        id_token_step(aresp, db2) ==
            IF "id_token" \notin rtype THEN finish(aresp, db2, None)
            ELSE IF ~mint_ok
            THEN [info |-> mint_failure(aresp, fragment_enc), sdb |-> db2, sinfo |-> None]
            ELSE minted(aresp, db2,
                        idtoken_kwargs(req, rtype, code,
                                       IF Has(aresp, "access_token")
                                       THEN Some(aresp["access_token"]) ELSE None))
        \* lines 235-244
        token_step(aresp, db1) ==
            IF "token" \in rtype
            THEN id_token_step(copy_token_fields(aresp, upgrade_dic(db1, sid)),
                               upgrade_to_token(db1, sid))
            ELSE id_token_step(aresp, db1)
        \* lines 228-233
        code_step(aresp) ==
            IF "code" \in rtype
            THEN token_step(("code" :> db[sid].code[1]) @@ aresp, db)
            ELSE token_step(aresp, update_code_none(db, sid))
    IN  IF Has(req, "response_type") /\ req["response_type"] = <<"none">>
        THEN [info |-> ResponseInfo(Obj("AuthorizationResponse", aresp0), fragment_enc),
              sdb |-> db, sinfo |-> None]
        ELSE code_step(IF Has(req, "scope") THEN ("scope" :> req["scope"]) @@ aresp0
                       ELSE aresp0)

-----------------------------------------------------------------------------
(* post_authentication *)

Issuer == "https://example.com/"

\* error_response that reports every failure as server_error
error_response_server_error(response_info, error, description) ==
    ("response_args" :> AuthorizationErrorResponse("server_error", description))
    @@ response_info

\* Authorization.error_response
error_response(response_info, error, description) ==
    ("response_args" :> AuthorizationErrorResponse(error, description)) @@ response_info

\* Message.to_dict() and inputs(): one hidden input per item of the dict
inputs(form_args) == form_args

\* response_mode that lets fragment pass whatever fragment_enc is
response_mode_fragment_unchecked(req, kwargs) ==
    LET resp_mode == req["response_mode"]
    IN  IF resp_mode = "form_post"
        THEN [raised |-> "", args |-> <<>>,
              info |-> ("response_msg" :>
                            [action |-> kwargs["return_uri"],
                             inputs |-> inputs(kwargs["response_args"].d)])
                       @@ kwargs]
        ELSE IF resp_mode = "fragment"
        THEN [raised |-> "", args |-> <<>>, info |-> kwargs]
        ELSE IF resp_mode = "query" /\ kwargs["fragment_enc"]
        THEN [raised |-> "InvalidRequest", args |-> <<"wrong response_mode">>,
              info |-> kwargs]
        ELSE [raised |-> "InvalidRequest", args |-> <<"Unknown response_mode">>,
              info |-> kwargs]

\* Authorization.response_mode(request, **kwargs): the exception raised ("" for
\* none) and the dict returned
response_mode(req, kwargs) ==
    LET resp_mode == req["response_mode"]
    IN  IF resp_mode = "form_post"
        THEN [raised |-> "", args |-> <<>>,
              info |-> ("response_msg" :>
                            [action |-> kwargs["return_uri"],
                             inputs |-> inputs(kwargs["response_args"].d)])
                       @@ kwargs]
        ELSE IF resp_mode = "fragment" /\ ~kwargs["fragment_enc"]
        THEN [raised |-> "InvalidRequest", args |-> <<"wrong response_mode">>,
              info |-> kwargs]
        ELSE IF resp_mode = "query" /\ kwargs["fragment_enc"]
        THEN [raised |-> "InvalidRequest", args |-> <<"wrong response_mode">>,
              info |-> kwargs]
        ELSE [raised |-> "InvalidRequest", args |-> <<"Unknown response_mode">>,
              info |-> kwargs]

\* new_cookie(endpoint_context, cookie_name=..., uid=user, sid=sid, state=...)
new_cookie(user, sid, state) ==
    [typ |-> "sso", uid |-> user, sid |-> sid, state |-> state]

\* what the collaborators of one post_authentication call do
\*   authz:     "ok", "ToOld" or "Exception" from endpoint_context.authz
\*   update_ok: whether sdb.update(sid, permission=...) succeeds
\*   revoke:    whether the session is revoked by the time of the re-check
\*   mint_ok:   whether make_idtoken succeeds
\*   salt:      the value of rndstr()
\* A collaborator that is not reached behaves in its default way.
Salts == {"s1", "s2"}
DefaultCollaborators ==
    [authz |-> "ok", update_ok |-> TRUE, revoke |-> FALSE, mint_ok |-> TRUE, salt |-> "s1"]
Collaborators ==
    {[DefaultCollaborators EXCEPT !.authz = a] : a \in {"ToOld", "Exception"}}
    \cup {[DefaultCollaborators EXCEPT !.update_ok = FALSE]}
    \cup {[DefaultCollaborators EXCEPT !.revoke = TRUE]}
    \cup {[DefaultCollaborators EXCEPT !.mint_ok = m, !.salt = x] :
              m \in BOOLEAN, x \in Salts}

\* Authorization.post_authentication(user, request, sid): raised is the exception
\* that leaves it ("" for none), ret the dict returned, sdb the store afterwards
post_authentication(user, req, sid, db, db_info, env) ==
    LET \* lines 608-618
        mode_step(info1, db3, rm) ==
            IF Has(req, "response_mode") /\ rm.raised # ""
            THEN [raised |-> "", sdb |-> db3,
                  ret |-> error_response(info1, "invalid_request", rm.args)]
            ELSE [raised |-> "", sdb |-> db3,
                  ret |-> ("cookie" :> <<new_cookie(user, sid, req["state"])>>)
                          @@ (IF Has(req, "response_mode") THEN rm.info ELSE info1)]
        \* lines 599-602
        cookie_step(info1, db3) ==
            IF ~Has(req, "state")
            THEN [raised |-> "KeyError", sdb |-> db3, ret |-> EmptyDict]
            ELSE mode_step(info1, db3,
                           IF Has(req, "response_mode") THEN response_mode(req, info1)
                           ELSE [raised |-> "", args |-> <<>>, info |-> info1])
        \* lines 585-592
        uri_step(car, ru) ==
            IF ru.raised \in {"RedirectURIError", "ParameterError"}
            THEN [raised |-> "", sdb |-> car.sdb,
                  ret |-> error_response(car.info, "invalid_request", <<ru.raised>>)]
            ELSE IF ru.raised # ""
            THEN [raised |-> ru.raised, sdb |-> car.sdb, ret |-> EmptyDict]
            ELSE cookie_step(("return_uri" :> ru.uri[1]) @@ car.info, car.sdb)
        \* lines 579-583
        revoked_step(db2) ==
            IF is_session_revoked(db2, sid)
            THEN [raised |-> "", sdb |-> db2,
                  ret |-> error_response(EmptyDict, "access_denied",
                                         <<"Session is revoked">>)]
            ELSE uri_step(create_authn_response(req, sid, db2, env.mint_ok),
                          get_redirect_uri(db_info, req))
        \* the session as it is when line 579 reads it
        at_recheck(db1) ==
            revoked_step(IF env.revoke THEN [db1 EXCEPT ![sid].revoked = TRUE] ELSE db1)
    IN  IF env.authz = "ToOld"
        THEN [raised |-> "", sdb |-> db,
              ret |-> error_response(EmptyDict, "access_denied", <<"Authentication to old">>)]
        ELSE IF env.authz # "ok"
        THEN [raised |-> "", sdb |-> db,
              ret |-> error_response(EmptyDict, "access_denied", <<"authz">>)]
        ELSE IF ~env.update_ok
        THEN [raised |-> "", sdb |-> db,
              ret |-> error_response(EmptyDict, "server_error", <<"update">>)]
        ELSE at_recheck(update_permission(db, sid, "any"))

-----------------------------------------------------------------------------
(* authz_part2 *)

\* "{uri.scheme}://{uri.netloc}" of urlparse(redirect_uri)
rp_origin_url(uri) ==
    CASE uri.base = "https://rp/cb" -> "https://rp"
      [] uri.base = "https://rp/other" -> "https://rp"
      [] uri.base = "https://rp:8443/cb" -> "https://rp:8443"

\* Authorization._compute_session_state: hash is the string that is digested (a
\* collision-resistant digest is one-to-one on it), salt the suffix after "."
compute_session_state(state, salt, client_id, redirect_uri) ==
    [hash |-> client_id \o " " \o rp_origin_url(redirect_uri) \o " " \o state
                  \o " " \o salt,
     salt |-> salt]

\* cookie_dealer.create_cookie(state, typ="session", ...)
session_cookie(state) == [typ |-> "session", value |-> state]

\* mix-up mitigation that adds client_id and forgets iss
mix_up_mitigation_without_iss(resp_info, req) ==
    LET args == resp_info["response_args"]
    IN  ("response_args" :> Obj(args.cls, ("client_id" :> req["client_id"]) @@ args.d))
        @@ resp_info

\* lines 656-658: mix-up mitigation
mix_up_mitigation(resp_info, req) ==
    LET args == resp_info["response_args"]
    IN  ("response_args" :>
             Obj(args.cls, ("iss" :> Issuer) @@ ("client_id" :> req["client_id"]) @@ args.d))
        @@ resp_info

\* session management that keeps one salt for every completion
session_management_cached_salt(resp_info, req, db, sid, salt) ==
    LET state == ToString(db[sid].authn_time)
        session_state == compute_session_state(state, "s1", req["client_id"],
                                               resp_info["return_uri"])
        args == resp_info["response_args"]
        cookie == IF Has(resp_info, "cookie")
                  THEN Append(resp_info["cookie"], session_cookie(state))
                  ELSE <<session_cookie(state)>>
    IN  ("response_args" :> Obj(args.cls, ("session_state" :> session_state) @@ args.d))
        @@ ("cookie" :> cookie) @@ resp_info

\* lines 638-654: session management
session_management(resp_info, req, db, sid, salt) ==
    LET state == ToString(db[sid].authn_time)
        session_state == compute_session_state(state, salt, req["client_id"],
                                               resp_info["return_uri"])
        args == resp_info["response_args"]
        cookie == IF Has(resp_info, "cookie")
                  THEN Append(resp_info["cookie"], session_cookie(state))
                  ELSE <<session_cookie(state)>>
    IN  ("response_args" :> Obj(args.cls, ("session_state" :> session_state) @@ args.d))
        @@ ("cookie" :> cookie) @@ resp_info

\* the rest of authz_part2 run on the newest session of the store instead of
\* the session the call created
authz_part2_after_session_latest(user, req, sid, db1, db_info, pinfo, env) ==
    LET after(pa, last) ==
            IF pa.raised # ""
            THEN [raised |-> "", sdb |-> pa.sdb, sid |-> sid,
                  ret |-> error_response(EmptyDict, "server_error", <<pa.raised>>)]
            ELSE IF Has(pinfo, "check_session_iframe")
            THEN IF ~Has(pa.ret, "return_uri")
                 THEN [raised |-> "KeyError", sdb |-> pa.sdb, sid |-> sid, ret |-> EmptyDict]
                 ELSE [raised |-> "", sdb |-> pa.sdb, sid |-> sid,
                       ret |-> mix_up_mitigation(
                                   session_management(pa.ret, req, pa.sdb, last, env.salt),
                                   req)]
            ELSE [raised |-> "", sdb |-> pa.sdb, sid |-> sid,
                  ret |-> mix_up_mitigation(pa.ret, req)]
    IN  after(post_authentication(user, req, Len(db1), db1, db_info, env), Len(db1))

\* lines 633-660: authz_part2 once setup_session has returned sid
authz_part2_after_session(user, req, sid, db1, db_info, pinfo, env) ==
    LET after(pa) ==
            IF pa.raised # ""
            THEN [raised |-> "", sdb |-> pa.sdb, sid |-> sid,
                  ret |-> error_response(EmptyDict, "server_error", <<pa.raised>>)]
            ELSE IF Has(pinfo, "check_session_iframe")
            THEN IF ~Has(pa.ret, "return_uri")
                 THEN [raised |-> "KeyError", sdb |-> pa.sdb, sid |-> sid, ret |-> EmptyDict]
                 ELSE [raised |-> "", sdb |-> pa.sdb, sid |-> sid,
                       ret |-> mix_up_mitigation(
                                   session_management(pa.ret, req, pa.sdb, sid, env.salt),
                                   req)]
            ELSE [raised |-> "", sdb |-> pa.sdb, sid |-> sid,
                  ret |-> mix_up_mitigation(pa.ret, req)]
    IN  after(post_authentication(user, req, sid, db1, db_info, env))

\* Authorization.authz_part2(user, authn_event, request, **kwargs)
authz_part2(user, authn_event, req, db, db_info, pinfo, env) ==
    LET \* line 631
        session(db1) ==
            authz_part2_after_session(user, req, Len(db1), db1, db_info, pinfo, env)
    IN  session(setup_session(db, req, authn_event))

-----------------------------------------------------------------------------
(* setup_auth *)

\* Authorization._acr_claims: None, or the list of requested ACR values
acr_claims(req) ==
    IF ~(Has(req, "claims") /\ Has(req["claims"], "id_token")
         /\ Has(req["claims"]["id_token"], "acr"))
    THEN None
    ELSE LET acrdef == req["claims"]["id_token"]["acr"]
         IN  IF Has(acrdef, "value") THEN Some(<<acrdef["value"]>>)
             ELSE IF Has(acrdef, "values") THEN Some(acrdef["values"])
             ELSE None

\* authn_broker.pick(acr, "exact"): the registered methods of that ACR
broker_pick_exact(broker, acr) == SelectSeq(broker, LAMBDA m : m.acr = acr)

\* lines 389-397: the ACRs are asked for in turn and the first exact match
\* decides; queries is the list of the calls made to the broker
RECURSIVE exact_loop(_, _, _)
exact_loop(broker, acrs, queries) ==
    IF acrs = <<>> THEN [picked |-> None, queries |-> queries]
    ELSE IF broker_pick_exact(broker, Head(acrs)) # <<>>
         THEN [picked |-> Some(Head(broker_pick_exact(broker, Head(acrs)))),
               queries |-> Append(queries, <<"exact", Head(acrs)>>)]
         ELSE exact_loop(broker, Tail(acrs), Append(queries, <<"exact", Head(acrs)>>))

first_exact(broker, acrs) == exact_loop(broker, acrs, <<>>).picked

\* the comparison types pick_auth is called with: default, better, any
Tiers == {"", "better", "any"}

\* pick_auth(endpoint_context, request, comparision_type): the first method the
\* broker offers for the tier, None when it has none
pick_auth(broker, req, tier) ==
    IF SelectSeq(broker, LAMBDA m : tier \in m.tiers) = <<>> THEN None
    ELSE Some(Head(SelectSeq(broker, LAMBDA m : tier \in m.tiers)))

\* pick_authn_method that falls back on the tiers when no requested ACR matches
pick_authn_method_calls_fallback(broker, req, redirect_uri) ==
    LET tiers(queries) ==
            IF pick_auth(broker, req, "") # None
            THEN [picked |-> pick_auth(broker, req, ""),
                  queries |-> queries \o << <<"tier", "">> >>]
            ELSE IF pick_auth(broker, req, "better") # None
            THEN [picked |-> pick_auth(broker, req, "better"),
                  queries |-> queries \o << <<"tier", "">>, <<"tier", "better">> >>]
            ELSE [picked |-> pick_auth(broker, req, "any"),
                  queries |-> queries \o << <<"tier", "">>, <<"tier", "better">>,
                                           <<"tier", "any">> >>]
        exact(acrs) ==
            IF acrs # None /\ acrs[1] # <<>>
            THEN IF exact_loop(broker, acrs[1], <<>>).picked # None
                 THEN exact_loop(broker, acrs[1], <<>>)
                 ELSE tiers(exact_loop(broker, acrs[1], <<>>).queries)
            ELSE tiers(<<>>)
    IN  exact(acr_claims(req))

\* Authorization.pick_authn_method, lines 384-403: the (method, acr) picked (None
\* when the access_denied response is returned instead) and the calls made to
\* the broker
pick_authn_method_calls(broker, req, redirect_uri) ==
    LET exact(acrs) ==
            IF acrs # None /\ acrs[1] # <<>>
            THEN exact_loop(broker, acrs[1], <<>>)
            ELSE IF pick_auth(broker, req, "") # None
            THEN [picked |-> pick_auth(broker, req, ""),
                  queries |-> << <<"tier", "">> >>]
            ELSE IF pick_auth(broker, req, "better") # None
            THEN [picked |-> pick_auth(broker, req, "better"),
                  queries |-> << <<"tier", "">>, <<"tier", "better">> >>]
            ELSE [picked |-> pick_auth(broker, req, "any"),
                  queries |-> << <<"tier", "">>, <<"tier", "better">>, <<"tier", "any">> >>]
    IN  exact(acr_claims(req))

\* Authorization.pick_authn_method: the (method, acr) picked, or None when the
\* access_denied response is returned instead
pick_authn_method(broker, req, redirect_uri) ==
    pick_authn_method_calls(broker, req, redirect_uri).picked

\* max_age(request)
max_age(req) ==
    IF Has(req, "request") /\ Has(req["request"], "max_age") THEN req["request"]["max_age"]
    ELSE IF Has(req, "max_age") THEN req["max_age"]
    ELSE 0

\* re_authenticate(request, authn); done is what authn.done(request) answers
re_authenticate(req, done) ==
    Has(req, "prompt") /\ "login" \in SeqToSet(req["prompt"]) /\ done

\* prompt none recognised only when it is the whole prompt
prompt_is_none(req) == Has(req, "prompt") /\ req["prompt"] = <<"none">>

prompt_none(req) == Has(req, "prompt") /\ "none" \in SeqToSet(req["prompt"])

\* authn_args_gather(request, authn_class_ref, cinfo, **kwargs)
authn_args_gather(req, authn_class_ref, cinfo, kwargs) ==
    LET base == ("authn_class_ref" :> authn_class_ref) @@ ("query" :> req)
                    @@ ("return_uri" :> req["redirect_uri"])
        as_user == IF Has(kwargs, "req_user") THEN "as_user" :> <<kwargs["req_user"]>>
                   ELSE EmptyDict
        client == [k \in {a \in {"policy_uri", "logo_uri", "tos_uri"} : Has(cinfo, a)}
                       |-> cinfo[k]]
        ui == [k \in {a \in {"ui_locales", "acr_values"} : Has(req, a)} |-> req[k]]
    IN  ui @@ client @@ as_user @@ base

Users == {"diana"}

\* identity["uid"]: base64 of a JSON object naming a session (sid), or a value
\* that is not base64 (sid None)
Uids == [user : Users, sid : {None} \cup {Some(k) : k \in 1..MaxSessions}]

\* what authn.authenticated_as(cookie, authorization, max_age) does: raises exc,
\* or returns (identity, ts)
AuthnOutcomes ==
    {[exc |-> e, identity |-> None, ts |-> 0] :
         e \in {"NoSuchAuthentication", "TamperAllert", "ToOld", ""}}
    \cup {[exc |-> "", identity |-> Some([uid |-> u]), ts |-> 1] : u \in Uids}

\* what sdb[sid] does for a sid the store holds no session of: it raises
\* KeyError or returns None
Lookups == {"KeyError", "None"}

\* the liveness check without the test for revoked
active_identity_revoked_unchecked(outcome, db, lookup) ==
    IF outcome.exc # "" THEN None
    ELSE IF outcome.identity = None THEN None
    ELSE LET uid == outcome.identity[1].uid
         IN  IF uid.sid = None THEN outcome.identity
             ELSE IF uid.sid[1] \notin DOMAIN db THEN None
             ELSE outcome.identity

\* lines 436-473: the identity setup_auth goes on with
active_identity(outcome, db, lookup) ==
    IF outcome.exc # "" THEN None
    ELSE IF outcome.identity = None THEN None
    ELSE LET uid == outcome.identity[1].uid
         IN  IF uid.sid = None THEN outcome.identity
             ELSE IF uid.sid[1] \notin DOMAIN db
             THEN IF lookup = "KeyError" THEN None   \* lines 467-468
                  ELSE None                          \* lines 470-471
             ELSE IF db[uid.sid[1]].revoked THEN None
             ELSE outcome.identity

\* sdb.get_sids_by_sub(sub): the sessions of that subject, oldest first
get_sids_by_sub(db, sub) == SelectSeq([i \in DOMAIN db |-> i], LAMBDA i : db[i].uid.user = sub)

\* create_authn_event(uid, salt, authn_info=..., time_stamp=...)
create_authn_event(uid, salt, authn_info, time_stamp) ==
    [uid |-> uid, salt |-> salt, authn_info |-> authn_info, authn_time |-> time_stamp]

\* Authorization.setup_auth(request, redirect_uri, cinfo, cookie, **kwargs);
\* env.outcome is what authenticated_as does, env.done what authn.done answers
setup_auth(broker, req, redirect_uri, cinfo, db, kwargs, env) ==
    LET ts == IF env.outcome.exc # "" THEN 0 ELSE env.outcome.ts
        \* lines 496-518
        accept(identity, authn_class_ref, challenge, sids) ==
            IF sids # <<>> /\ identity[1].uid # db[sids[Len(sids)]].uid
            THEN IF prompt_none(req)
                 THEN [raised |-> "", identity |-> "active",
                       ret |-> ("error" :> "login_required")
                                   @@ ("return_uri" :> redirect_uri)]
                 ELSE [raised |-> "", identity |-> "active", ret |-> challenge]
            ELSE [raised |-> "", identity |-> "active",
                  ret |-> ("authn_event" :>
                               create_authn_event(identity[1].uid, "", authn_class_ref, ts))
                          @@ ("identity" :> identity[1]) @@ ("user" :> identity[1].uid)]
        \* lines 479-494
        decide(identity, authn_class_ref, challenge) ==
            IF identity = None
            THEN IF prompt_none(req)
                 THEN [raised |-> "", identity |-> "None",
                       ret |-> ("error" :> "login_required") @@ ("return_uri" :> redirect_uri)
                                   @@ ("return_type" :> req["response_type"])]
                 ELSE [raised |-> "", identity |-> "None", ret |-> challenge]
            ELSE IF re_authenticate(req, env.done)
            THEN [raised |-> "", identity |-> "active", ret |-> challenge]
            ELSE accept(identity, authn_class_ref, challenge,
                        IF Has(kwargs, "req_user")
                        THEN get_sids_by_sub(db, kwargs["req_user"]) ELSE <<>>)
        \* lines 434-476
        with(picked) ==
            IF picked = None
            THEN [raised |-> "ValueError", identity |-> "unset", ret |-> EmptyDict]
            ELSE decide(active_identity(env.outcome, db, env.lookup), picked[1].acr,
                        ("function" :> picked[1].method)
                        @@ ("args" :> authn_args_gather(req, picked[1].acr, cinfo, kwargs)))
    IN  with(pick_authn_method(broker, req, redirect_uri))

-----------------------------------------------------------------------------
(* process_request *)

Return(cls, v) == [kind |-> "return", cls |-> cls, v |-> v]
Raise(exc) == [kind |-> "raise", cls |-> exc, v |-> EmptyDict]

\* Authorization.proposed_user
proposed_user(req) ==
    IF Has(req, "it_token_hint") /\ Has(req["it_token_hint"], "sub")
    THEN req["it_token_hint"]["sub"] ELSE ""

\* Authorization.process_request(request_info, **kwargs).  env: what the
\* authentication method does (outcome, done, invoke_ok) and what the
\* collaborators of post_authentication do.  result is what the call returns or
\* raises, sdb the store afterwards; trace: whether pick_authn_method was called,
\* the identity setup_auth went on with, whether the authentication method was
\* invoked as a challenge, the session created (0 for none), and env itself.
process_request(request_info, broker, db, db_info, pinfo, env) ==
    LET req == request_info.d
        Trace(picked, identity, invoked, created) ==
            [picked |-> picked, identity |-> identity, invoked |-> invoked,
             created |-> created, env |-> env]
        \* lines 697-700
        part2(info, res) ==
            [result |-> IF res.raised # "" THEN Raise(res.raised)
                        ELSE Return("dict", res.ret),
             sdb |-> res.sdb,
             trace |-> Trace(TRUE, info.identity, FALSE, res.sid)]
        \* lines 688-710
        after(info) ==
            IF info.raised # ""
            THEN [result |-> Raise(info.raised), sdb |-> db,
                  trace |-> Trace(TRUE, info.identity, FALSE, 0)]
            ELSE IF Has(info.ret, "error")
            THEN [result |-> Return("dict", info.ret), sdb |-> db,
                  trace |-> Trace(TRUE, info.identity, FALSE, 0)]
            ELSE IF Has(info.ret, "function")
            THEN [result |->
                      IF env.invoke_ok
                      THEN Return("dict",
                                  ("http_response" :> [page |-> info.ret["function"],
                                                       args |-> info.ret["args"]])
                                  @@ ("return_uri" :> req["redirect_uri"]))
                      ELSE Return("dict",
                                  "http_response" :> [page |-> "Internal error",
                                                      args |-> EmptyDict]),
                  sdb |-> db,
                  trace |-> Trace(TRUE, info.identity, TRUE, 0)]
            ELSE part2(info, authz_part2(info.ret["user"], info.ret["authn_event"], req,
                                         db, db_info, pinfo, env))
        \* lines 681-683
        kwargs(user) == IF user # "" THEN "req_user" :> user ELSE EmptyDict
    IN  IF isinstance(request_info, "AuthorizationErrorResponse")
        THEN [result |-> Return("AuthorizationErrorResponse", request_info.d), sdb |-> db,
              trace |-> Trace(FALSE, "unset", FALSE, 0)]
        ELSE after(setup_auth(broker, req, req["redirect_uri"], db_info[req["client_id"]],
                              db, kwargs(proposed_user(req)), env))

-----------------------------------------------------------------------------
(* Values of the variables that an operation has not set *)

NoObj == Obj("None", EmptyDict)
NoResult == [kind |-> "none", v |-> EmptyDict]
NoTrace ==
    [picked |-> FALSE, identity |-> "unset", invoked |-> FALSE, created |-> 0,
     env |-> EmptyDict]

-----------------------------------------------------------------------------
(* Redirect-URI verification over every registration and request URI *)

\* a registered query: None, or key -> non-empty list of non-blank values
RegisteredQueries ==
    {None} \cup
    {Some(d) : d \in UNION {[K -> (SUBSET (QueryVals \ {""})) \ {{}}] :
                                K \in SUBSET QueryKeys}}

RegisteredPairs == Bases \X RegisteredQueries

RegisteredLists == SeqsUpTo(RegisteredPairs, MaxRegistered)

InitRedirect ==
    /\ cdb \in {"c1" :> ("redirect_uris" :> regs) : regs \in RegisteredLists}
    /\ request \in {("client_id" :> "c1") @@ ("response_type" :> <<"code">>)
                        @@ ("redirect_uri" :> u) : u \in URIs}
    /\ provider_info = EmptyDict
    /\ authn_broker = <<>>
    /\ sdb = <<>>
    /\ parsed = NoObj
    /\ result = NoResult
    /\ trace = NoTrace
    /\ pc = "received"

\* verify_redirect_uri(endpoint_context, request)
CallVerifyRedirectUri ==
    /\ pc = "received"
    /\ result' = [kind |-> "verify_redirect_uri", v |-> verify_redirect_uri(cdb, request)]
    /\ pc' = "verified"
    /\ UNCHANGED <<cdb, provider_info, authn_broker, sdb, request, parsed, trace>>

\* _post_parse_request(request, client_id, endpoint_context) on the same request
CallPostParseRequest ==
    /\ pc = "verified"
    /\ parsed' = post_parse_request(request, request["client_id"], cdb)
    /\ pc' = "parsed"
    /\ UNCHANGED <<cdb, provider_info, authn_broker, sdb, request, result, trace>>

NextRedirect == CallVerifyRedirectUri \/ CallPostParseRequest

SpecRedirect == InitRedirect /\ [][NextRedirect]_vars

-----------------------------------------------------------------------------
(* Response-type verification over every registration and requested list *)

ResponseTypeNames == {"code", "token", "id_token", "none"}

RegisteredTypeStrings == {"code", "code token", "token code", "id_token token", "none"}

RequestedTypeLists == SeqsUpTo(ResponseTypeNames, MaxResponseTypes) \ {<<>>}

\* a client record without response_types, or with a list of strings
ResponseTypeClients ==
    {"redirect_uris" :> << <<"https://rp/cb", None>> >>} \cup
    {("redirect_uris" :> << <<"https://rp/cb", None>> >>) @@ ("response_types" :> l) :
         l \in SeqsUpTo(RegisteredTypeStrings, MaxRegisteredTypes)}

PlainUri(base) == [base |-> base, query |-> None, fragment |-> "", quoted |-> FALSE]

InitResponseType ==
    /\ cdb \in {"c1" :> c : c \in ResponseTypeClients}
    /\ request \in {("client_id" :> "c1") @@ ("response_type" :> rt)
                        @@ ("redirect_uri" :> PlainUri("https://rp/cb")) :
                        rt \in RequestedTypeLists}
    /\ provider_info = EmptyDict
    /\ authn_broker = <<>>
    /\ sdb = <<>>
    /\ parsed = NoObj
    /\ result = NoResult
    /\ trace = NoTrace
    /\ pc = "received"

\* Authorization.verify_response_type(request, cinfo)
CallVerifyResponseType ==
    /\ pc = "received"
    /\ result' = [kind |-> "verify_response_type",
                  v |-> verify_response_type(request, cdb[request["client_id"]])]
    /\ pc' = "verified"
    /\ UNCHANGED <<cdb, provider_info, authn_broker, sdb, request, parsed, trace>>

NextResponseType == CallVerifyResponseType \/ CallPostParseRequest

SpecResponseType == InitResponseType /\ [][NextResponseType]_vars

-----------------------------------------------------------------------------
(* One request against the client database and a session store *)

\* the client database: c1 with one redirect URI and every response type the
\* provider supports (and two it cannot assemble), c2 with a registered query
\* and no response types
MainCdb ==
    ("c1" :> (("redirect_uris" :> << <<"https://rp/cb", None>> >>)
              @@ ("response_types" :>
                      <<"code", "token", "id_token", "code token", "code id_token",
                        "id_token token", "code id_token token", "none",
                        "code device", "code none">>)
              @@ ("policy_uri" :> "https://rp/policy")))
    @@ ("c2" :> ("redirect_uris" :> << <<"https://rp/other", Some([a |-> {"1"}])>> >>))

QueryUri(base, q) == [base |-> base, query |-> Some(q), fragment |-> "", quoted |-> FALSE]

\* an authorization request; the optional parameters are sequences of length <= 1
Req(client_id, rt, uri, state, mode, prompt) ==
    ("client_id" :> client_id) @@ ("response_type" :> rt) @@ ("scope" :> <<"openid">>)
        @@ [k \in {"redirect_uri"} \cap {x \in {"redirect_uri"} : uri # <<>>} |-> uri[1]]
        @@ [k \in {x \in {"state"} : state # <<>>} |-> state[1]]
        @@ [k \in {x \in {"response_mode"} : mode # <<>>} |-> mode[1]]
        @@ [k \in {x \in {"prompt"} : prompt # <<>>} |-> prompt[1]]

FlowResponseTypes ==
    {<<"code">>, <<"token">>, <<"id_token">>, <<"code", "token">>, <<"code", "id_token">>,
     <<"id_token", "token">>, <<"code", "id_token", "token">>, <<"none">>,
     <<"code", "device">>, <<"code", "none">>}

\* requests that differ in what validation looks at
ValidationRequests ==
    {Req(c, rt, u, <<"xyz">>, <<>>, <<>>) :
        c \in {"c1", "c2", "cx"},
        rt \in {<<"code">>, <<"token", "code">>, <<"device">>},
        u \in {<<>>, <<PlainUri("https://rp/cb")>>,
               <<QueryUri("https://rp/other", << <<"a", "1">> >>)>>,
               <<QueryUri("https://rp/cb", << <<"a", "1">> >>)>>}}

\* valid requests of c1 that differ in what response assembly looks at
AssemblyRequests ==
    {Req("c1", rt, <<PlainUri("https://rp/cb")>>, st, m, <<>>) :
        rt \in FlowResponseTypes,
        st \in {<<>>, <<"xyz">>},
        m \in {<<>>, <<"query">>, <<"fragment">>, <<"form_post">>, <<"web_message">>}}

\* valid requests of c1 that differ in prompt
PromptRequests ==
    {Req("c1", rt, <<PlainUri("https://rp/cb")>>, <<"xyz">>, <<>>, <<p>>) :
        rt \in {<<"code">>, <<"id_token", "token">>},
        p \in {<<"none">>, <<"login">>, <<"login", "none">>}}

Requests == {EmptyDict} \cup ValidationRequests \cup AssemblyRequests \cup PromptRequests

\* the authentication methods the broker can have registered
Brokers ==
    {<<>>, <<[method |-> "anon", acr |-> "INTERNETPROTOCOLPASSWORD", tiers |-> Tiers]>>}

ProviderInfos == {EmptyDict, "check_session_iframe" :> "https://example.com/session"}

\* a session as create_authz_session, the permission update and a code-only
\* response leave it
CodeSession(sid) ==
    [uid |-> [user |-> "diana", sid |-> None], authn_time |-> 1,
     code |-> Some(CodeOf(sid)), access_token |-> None, refresh_token |-> None,
     permission |-> Some("any"), revoked |-> FALSE]

\* the stores a request can find: empty, or holding the session of an earlier
\* request, which may have been revoked since
Stores == {<<>>, <<CodeSession(1)>>, <<[CodeSession(1) EXCEPT !.revoked = TRUE]>>}

Init ==
    /\ cdb = MainCdb
    /\ provider_info \in ProviderInfos
    /\ authn_broker \in Brokers
    /\ sdb \in Stores
    /\ request = EmptyDict
    /\ parsed = NoObj
    /\ result = NoResult
    /\ trace = NoTrace
    /\ pc = "idle"

\* the endpoint parses a request of R and runs _post_parse_request on it
PostParseRequestOf(R) ==
    /\ pc = "idle"
    /\ \E r \in R :
           /\ request' = r
           /\ parsed' = post_parse_request(
                            r, IF Has(r, "client_id") THEN r["client_id"] ELSE "", cdb)
    /\ pc' = "parsed"
    /\ UNCHANGED <<cdb, provider_info, authn_broker, sdb, result, trace>>

PostParseRequest == PostParseRequestOf(Requests)

DefaultEnv ==
    [outcome |-> [exc |-> "", identity |-> None, ts |-> 0], done |-> FALSE,
     lookup |-> "KeyError", invoke_ok |-> TRUE] @@ DefaultCollaborators

\* the behaviours of the authentication method that the request can meet
AuthnEnvs ==
    IF isinstance(parsed, "AuthorizationErrorResponse") THEN {DefaultEnv}
    ELSE UNION {{[DefaultEnv EXCEPT !.outcome = o, !.done = d, !.lookup = l] :
                    d \in IF Has(request, "prompt")
                             /\ "login" \in SeqToSet(request["prompt"])
                          THEN BOOLEAN ELSE {FALSE},
                    l \in IF /\ o.identity # None
                             /\ o.identity[1].uid.sid # None
                             /\ o.identity[1].uid.sid[1] \notin DOMAIN sdb
                          THEN Lookups ELSE {"KeyError"}} :
                o \in AuthnOutcomes}

\* ... and, given that, the behaviours of the collaborators that are reached
EnvsAfter(e) ==
    LET reached(t) ==
            IF t.created # 0 THEN {c @@ e : c \in Collaborators}
            ELSE IF t.invoked THEN {e, [e EXCEPT !.invoke_ok = FALSE]}
            ELSE {e}
    IN  reached(process_request(parsed, authn_broker, sdb, cdb, provider_info, e).trace)

\* process_request on what _post_parse_request returned
ProcessRequest ==
    /\ pc = "parsed"
    /\ \E a \in AuthnEnvs : \E env \in EnvsAfter(a) :
           LET Returns(out) ==
                   /\ Len(out.sdb) <= MaxSessions
                   /\ result' = out.result
                   /\ sdb' = out.sdb
                   /\ trace' = out.trace
           IN  Returns(process_request(parsed, authn_broker, sdb, cdb, provider_info, env))
    /\ pc' = "done"
    /\ UNCHANGED <<cdb, provider_info, authn_broker, request, parsed>>

Next == PostParseRequest \/ ProcessRequest

\* one request, from its arrival to the value process_request returns
Spec == Init /\ [][Next]_vars

-----------------------------------------------------------------------------
(* The endpoint serving requests one after another *)

\* requests that take each path through process_request
SessionRequests ==
    {Req("c1", rt, <<PlainUri("https://rp/cb")>>, <<"xyz">>, <<>>, p) :
        rt \in {<<"code">>, <<"id_token", "token">>},
        p \in {<<>>, << <<"none">> >>}}
    \cup {Req("cx", <<"code">>, <<PlainUri("https://rp/cb")>>, <<"xyz">>, <<>>, <<>>)}

InitSessions ==
    /\ cdb = MainCdb
    /\ provider_info \in ProviderInfos
    /\ authn_broker \in Brokers
    /\ sdb = <<>>
    /\ request = EmptyDict
    /\ parsed = NoObj
    /\ result = NoResult
    /\ trace = NoTrace
    /\ pc = "idle"

ReceiveRequest == PostParseRequestOf(SessionRequests)

\* the response is sent and the request discarded
Discard ==
    /\ pc = "done"
    /\ request' = EmptyDict
    /\ parsed' = NoObj
    /\ result' = NoResult
    /\ trace' = NoTrace
    /\ pc' = "idle"
    /\ UNCHANGED <<cdb, provider_info, authn_broker, sdb>>

\* a session is revoked (logout) between two requests
RevokeSession ==
    /\ pc = "idle"
    /\ \E sid \in DOMAIN sdb :
           /\ ~sdb[sid].revoked
           /\ sdb' = [sdb EXCEPT ![sid].revoked = TRUE]
    /\ UNCHANGED <<cdb, provider_info, authn_broker, request, parsed, result, trace, pc>>

NextSessions == ReceiveRequest \/ ProcessRequest \/ Discard \/ RevokeSession

SpecSessions == InitSessions /\ [][NextSessions]_vars

-----------------------------------------------------------------------------
(* Properties of redirect-URI verification (SpecRedirect) *)

\* the request URI as the endpoint reads it, and the client's registered pairs
RequestUri == unquote(request["redirect_uri"])
Registered == cdb[request["client_id"]]["redirect_uris"]

\* the query components a URI carries, blank-valued ones included
UriComponents(uri) ==
    IF uri.query = None THEN {} ELSE SeqToSet(uri.query[1])

\* the (key, value) pairs of a registered query
RegisteredComponents(rquery) ==
    IF rquery = None THEN {}
    ELSE {kv \in QueryKeys \X QueryVals :
              kv[1] \in DOMAIN rquery[1] /\ kv[2] \in rquery[1][kv[1]]}

VerifyReturned ==
    pc # "received" /\ result.kind = "verify_redirect_uri" /\ result.v = "None"

ParsedIsError(error) ==
    /\ isinstance(parsed, "AuthorizationErrorResponse")
    /\ parsed.d["error"] = error

\* C1: verify_redirect_uri returns None only if the request URI has no fragment
\* and some registered pair has the request's base and a query whose components
\* are exactly the request's components; a request URI that carries a query
\* component never verifies against a registration without query, and
\* _post_parse_request then answers invalid_request.
C1_OnlyExactMatchVerifies ==
    /\ VerifyReturned =>
           /\ RequestUri.fragment = ""
           /\ \E i \in DOMAIN Registered :
                  /\ Registered[i][1] = RequestUri.base
                  /\ RegisteredComponents(Registered[i][2]) = UriComponents(RequestUri)
    /\ ( /\ pc = "parsed"
         /\ UriComponents(RequestUri) # {}
         /\ \A i \in DOMAIN Registered : Registered[i][2] = None )
           => result.v # "None" /\ ParsedIsError("invalid_request")

\* the components of a URI that parse_qs keeps
ParsedComponents(uri) == {kv \in UriComponents(uri) : kv[2] # ""}

\* registered pair i matches the request: same base, same parsed components
PairMatches(i) ==
    /\ Registered[i][1] = RequestUri.base
    /\ RegisteredComponents(Registered[i][2]) = ParsedComponents(RequestUri)

Reorderings(n) == {f \in [1..n -> 1..n] : \A i \in 1..n : \E j \in 1..n : f[j] = i}

\* C2: verify_redirect_uri returns None whenever some registered pair matches the
\* fragment-free request URI, whatever the order of the registered pairs.
C2_SomeMatchVerifies ==
    (pc # "received" /\ result.kind = "verify_redirect_uri") =>
        /\ (RequestUri.fragment = "" /\ \E i \in DOMAIN Registered : PairMatches(i))
               => result.v = "None"
        /\ \A f \in Reorderings(Len(Registered)) :
               verify_redirect_uri(
                   "c1" :> ("redirect_uris" :> [i \in DOMAIN Registered |-> Registered[f[i]]]),
                   request) = result.v

-----------------------------------------------------------------------------
(* Properties of response-type verification (SpecResponseType) *)

RequestedTypes == SeqToSet(request["response_type"])

\* the response-type sets of the client, {code} alone when it registered none
RegisteredTypeSets ==
    LET cinfo == cdb[request["client_id"]]
    IN  IF "response_types" \in DOMAIN cinfo
        THEN {SeqToSet(split(cinfo["response_types"][i])) :
                  i \in DOMAIN cinfo["response_types"]}
        ELSE {{"code"}}

\* C3: verify_response_type is true iff the requested set equals a registered set
\* ({code} when none is registered); a refused request, {code, token} against
\* {code} among them, is answered with invalid_request.
C3_ResponseTypeSetEquality ==
    /\ (pc # "received" /\ result.kind = "verify_response_type") =>
           (result.v <=>
                \E S \in RegisteredTypeSets :
                    /\ \A t \in S : t \in RequestedTypes
                    /\ \A t \in RequestedTypes : t \in S)
    /\ (pc = "parsed" /\ result.kind = "verify_response_type" /\ ~result.v) =>
           ParsedIsError("invalid_request")
    /\ ( /\ pc = "parsed" /\ result.kind = "verify_response_type"
         /\ RequestedTypes = {"code", "token"}
         /\ RegisteredTypeSets = {{"code"}} )
           => ParsedIsError("invalid_request")

\* {code, token} was requested of a client registered for code alone, and refused
C3_Witness ==
    /\ pc = "parsed" /\ result.kind = "verify_response_type"
    /\ request["response_type"] = <<"token", "code">>
    /\ "response_types" \in DOMAIN cdb["c1"]
    /\ cdb["c1"]["response_types"] = <<"code">>
    /\ ~result.v
    /\ ParsedIsError("invalid_request")

-----------------------------------------------------------------------------
(* Properties of one request (Spec) *)

Done == pc = "done"

\* process_request returned a dict with response_args
ReturnedResponse ==
    /\ Done /\ result.kind = "return" /\ result.cls = "dict"
    /\ Has(result.v, "response_args")

ReturnedSuccess ==
    ReturnedResponse /\ result.v["response_args"].cls = "AuthorizationResponse"

ReturnedError(error) ==
    /\ ReturnedResponse
    /\ result.v["response_args"].cls = "AuthorizationErrorResponse"
    /\ result.v["response_args"].d["error"] = error

ResponseArgs == result.v["response_args"].d

\* the session-bound path was taken: authz_part2 created a session
SessionBound == Done /\ trace.created # 0

\* C4: validation checks the client, then the response type, then the redirect
\* URI, and the first failing check decides the answer; process_request hands an
\* error response back unchanged and calls no collaborator.
C4_ValidationOrder ==
    [][ /\ (pc = "idle" /\ pc' = "parsed" /\ request' # EmptyDict) =>
               LET req == request'
                   known == req["client_id"] \in DOMAIN cdb
                   rt_ok == verify_response_type(req, cdb[req["client_id"]])
                   uri_ok == get_redirect_uri(cdb, req).raised = ""
               IN  /\ ~known =>
                          /\ isinstance(parsed', "AuthorizationErrorResponse")
                          /\ parsed'.d["error"] = "unauthorized_client"
                   /\ (known /\ ~rt_ok) =>
                          /\ isinstance(parsed', "AuthorizationErrorResponse")
                          /\ parsed'.d["error"] = "invalid_request"
                          /\ parsed'.d["error_description"]
                                 = <<"Trying to use unregistered response_typ">>
                   /\ (known /\ rt_ok /\ ~uri_ok) =>
                          /\ isinstance(parsed', "AuthorizationErrorResponse")
                          /\ parsed'.d["error"] = "invalid_request"
                          /\ parsed'.d["error_description"][1]
                                 \in {"RedirectURIError", "ParameterError", "UnknownClient"}
                   /\ (known /\ rt_ok /\ uri_ok) =>
                          isinstance(parsed', "AuthorizationRequest")
        /\ (pc = "parsed" /\ pc' = "done"
            /\ isinstance(parsed, "AuthorizationErrorResponse")) =>
               /\ result' = Return("AuthorizationErrorResponse", parsed.d)
               /\ sdb' = sdb
               /\ ~trace'.picked /\ ~trace'.invoked /\ trace'.created = 0
      ]_vars

\* an unknown client whose response type and redirect URI would fail as well
C4_Witness ==
    /\ Done /\ request # EmptyDict
    /\ request["client_id"] = "cx"
    /\ request["response_type"] = <<"device">>
    /\ ~Has(request, "redirect_uri")
    /\ result = Return("AuthorizationErrorResponse", parsed.d)
    /\ result.v["error"] = "unauthorized_client"

\* C5 as stated: fragment_enc = (set of response types # {code}) for all requests.
C5_FragmentEncUnlessCode ==
    (ReturnedResponse /\ Has(result.v, "fragment_enc")) =>
        (result.v["fragment_enc"] <=> (RequestedTypes # {"code"}))

\* C5 amended: fragment_enc is false for response_type = [none]; for every other
\* request it equals (set of response types # {code}).
C5_FragmentEnc ==
    (ReturnedResponse /\ Has(result.v, "fragment_enc")) =>
        (result.v["fragment_enc"] <=>
            (request["response_type"] # <<"none">> /\ RequestedTypes # {"code"}))

C5_Witness ==
    /\ ReturnedSuccess /\ Has(result.v, "fragment_enc")
    /\ request["response_type"] = <<"none">>
    /\ ~result.v["fragment_enc"]

\* C6: a success response of authz_part2 carries the provider's iss and the
\* request's client_id; for response_type = [code] with state it carries the
\* session's code and the state, with fragment_enc false.
C6_MixUpMitigation ==
    ReturnedSuccess =>
        /\ Has(ResponseArgs, "iss") /\ ResponseArgs["iss"] = Issuer
        /\ Has(ResponseArgs, "client_id")
        /\ ResponseArgs["client_id"] = request["client_id"]
        /\ (request["response_type"] = <<"code">> /\ Has(request, "state")) =>
               /\ Has(ResponseArgs, "code")
               /\ ResponseArgs["code"] = sdb[trace.created].code[1]
               /\ Has(ResponseArgs, "state")
               /\ ResponseArgs["state"] = request["state"]
               /\ ~result.v["fragment_enc"]

\* the identity of the request names a live session of the store
AlreadyAuthenticated ==
    /\ trace.env.outcome.identity # None
    /\ trace.env.outcome.identity[1].uid.sid = Some(1)
    /\ 1 \in DOMAIN sdb /\ ~sdb[1].revoked

C6_Witness ==
    /\ ReturnedSuccess
    /\ AlreadyAuthenticated
    /\ request["response_type"] = <<"code">>
    /\ Has(request, "state") /\ request["state"] = "xyz"
    /\ ResponseArgs["code"] = CodeOf(2)
    /\ ResponseArgs["iss"] = Issuer
    /\ Has(provider_info, "check_session_iframe")

PromptContainsNone ==
    Has(request, "prompt") /\ "none" \in SeqToSet(request["prompt"])

\* C7: with prompt containing none and no active identity, process_request
\* returns login_required with the validated redirect URI and does not invoke
\* the authentication method.
C7_LoginRequired ==
    (Done /\ PromptContainsNone /\ trace.identity = "None") =>
        /\ result.kind = "return" /\ result.cls = "dict"
        /\ Has(result.v, "error") /\ result.v["error"] = "login_required"
        /\ Has(result.v, "return_uri")
        /\ result.v["return_uri"] = parsed.d["redirect_uri"]
        /\ ~trace.invoked
        /\ trace.created = 0

C7_Witness ==
    /\ Done /\ trace.identity = "None"
    /\ Has(request, "prompt") /\ request["prompt"] = <<"login", "none">>
    /\ trace.env.outcome.exc = "" /\ trace.env.outcome.identity = None
    /\ result.v["error"] = "login_required"

\* the outcomes of the steps of post_authentication before response assembly
Authorized ==
    /\ SessionBound
    /\ trace.env.authz = "ok" /\ trace.env.update_ok

RevokedAtRecheck == Authorized /\ sdb[trace.created].revoked

NoGrant ==
    /\ ~Has(ResponseArgs, "code") /\ ~Has(ResponseArgs, "access_token")
    /\ ~Has(ResponseArgs, "id_token")

\* C8: a session found revoked at the re-check yields access_denied, with no
\* code, access_token or id_token, the session not upgraded and its code kept,
\* whatever the provider configuration.
C8_RevokedDenied ==
    RevokedAtRecheck =>
        /\ ReturnedError("access_denied")
        /\ NoGrant
        /\ sdb[trace.created].access_token = None
        /\ sdb[trace.created].code # None

\* response assembly returned a response and the cookie could be made
Assembled ==
    /\ Authorized /\ ~sdb[trace.created].revoked
    /\ Has(request, "state")

AssembledSuccess ==
    /\ Assembled
    /\ RequestedTypes \subseteq {"code", "token", "id_token", "none"}
    /\ request["response_type"] \in {<<"none">>} \cup SeqsUpTo({"code", "token", "id_token"}, 3)
    /\ ("id_token" \in RequestedTypes => trace.env.mint_ok)

\* C9: response_mode = fragment with fragment_enc true, and response_mode =
\* query with fragment_enc false, are accepted: the success response is returned
\* with its cookie.
C9_AgreeingModeAccepted ==
    ( /\ AssembledSuccess
      /\ Has(request, "response_mode")
      /\ \/ request["response_mode"] = "fragment" /\ fragment_enc_of(request)
         \/ request["response_mode"] = "query" /\ ~fragment_enc_of(request) )
        => ReturnedSuccess /\ Has(result.v, "cookie")

\* C10: a response_mode that contradicts fragment_enc, or is unknown, yields
\* invalid_request; without response_mode the assembled response is returned.
C10_ContradictingModeRefused ==
    /\ ( /\ Assembled
         /\ Has(request, "response_mode")
         /\ \/ request["response_mode"] = "fragment" /\ ~result.v["fragment_enc"]
            \/ request["response_mode"] = "query" /\ result.v["fragment_enc"]
            \/ request["response_mode"] \notin {"query", "fragment", "form_post"} )
           => /\ ReturnedError("invalid_request")
              /\ ResponseArgs["error_description"]
                     \in {<<"wrong response_mode">>, <<"Unknown response_mode">>}
              /\ NoGrant
    /\ (AssembledSuccess /\ ~Has(request, "response_mode"))
           => ReturnedSuccess /\ Has(result.v, "cookie")

C10_Witness ==
    /\ Assembled
    /\ request["response_type"] = <<"code">>
    /\ Has(request, "response_mode") /\ request["response_mode"] = "fragment"
    /\ ReturnedError("invalid_request")
    /\ ResponseArgs["error_description"] = <<"wrong response_mode">>

FormPost ==
    /\ AssembledSuccess
    /\ Has(request, "response_mode") /\ request["response_mode"] = "form_post"

\* C11: form_post is accepted for both values of fragment_enc; the form posts to
\* the return URI and has one hidden input for every parameter of the success
\* response that is returned, iss, client_id and session_state included.
C11_FormPostEmbedsResponse ==
    FormPost =>
        /\ ReturnedSuccess
        /\ Has(result.v, "response_msg")
        /\ result.v["response_msg"].action = result.v["return_uri"]
        /\ result.v["response_msg"].inputs = ResponseArgs

-----------------------------------------------------------------------------
(* Selection of the authentication method over brokers and ACR claims *)

\* most methods a broker has registered
MaxMethods == 2

\* a registered method: its ACR, and the tiers for which pick_auth offers it
Methods ==
    [method : {"m1", "m2"}, acr : {"a1", "a2"},
     tiers : {{}, {""}, {"better"}, {"any"}}]

PickBrokers == SeqsUpTo(Methods, MaxMethods)

\* the acr member of claims.id_token: without values, with value, with values
AcrDefs ==
    {EmptyDict, "essential" :> "true"}
    \cup {"value" :> v : v \in {"a1", "a3"}}
    \cup {"values" :> vs : vs \in {<<>>, <<"a1">>, <<"a2", "a1">>, <<"a3", "a1">>, <<"a3">>}}
    \cup {("value" :> "a2") @@ ("values" :> <<"a1">>)}

PickRequests ==
    LET req(p) == Req("c1", <<"code">>, <<PlainUri("https://rp/cb")>>, <<"xyz">>, <<>>, p)
    IN  UNION {{req(p), ("claims" :> ("userinfo" :> EmptyDict)) @@ req(p)}
               \cup {("claims" :> ("id_token" :> ("acr" :> a))) @@ req(p) : a \in AcrDefs} :
               p \in {<<>>, << <<"none">> >>}}

InitPick ==
    /\ cdb = MainCdb
    /\ provider_info = EmptyDict
    /\ authn_broker \in PickBrokers
    /\ sdb = <<>>
    /\ request \in PickRequests
    /\ parsed = NoObj
    /\ result = NoResult
    /\ trace = NoTrace
    /\ pc = "received"

\* pick_authn_method on the validated request
CallPickAuthnMethod ==
    /\ pc = "received"
    /\ parsed' = post_parse_request(request, request["client_id"], cdb)
    /\ result' = [kind |-> "pick_authn_method",
                  v |-> pick_authn_method_calls(authn_broker, request,
                                                request["redirect_uri"])]
    /\ pc' = "picked"
    /\ UNCHANGED <<cdb, provider_info, authn_broker, sdb, request, trace>>

\* process_request on the validated request, no cookie sent with it
ProcessPicked ==
    /\ pc = "picked"
    /\ \E env \in EnvsAfter(DefaultEnv) :
           LET Returns(out) ==
                   /\ result' = out.result
                   /\ sdb' = out.sdb
                   /\ trace' = out.trace
           IN  Returns(process_request(parsed, authn_broker, sdb, cdb, provider_info, env))
    /\ pc' = "done"
    /\ UNCHANGED <<cdb, provider_info, authn_broker, request, parsed>>

NextPick == CallPickAuthnMethod \/ ProcessPicked

SpecPick == InitPick /\ [][NextPick]_vars

-----------------------------------------------------------------------------
(* Properties of method selection (SpecPick) *)

Picked == pc = "picked" /\ result.kind = "pick_authn_method"

\* the request has an acr member under claims.id_token
HasAcrClaim ==
    /\ Has(request, "claims") /\ Has(request["claims"], "id_token")
    /\ Has(request["claims"]["id_token"], "acr")

\* the ACR values the claim names: its value, or else its values
RequestedAcrs ==
    IF ~HasAcrClaim THEN <<>>
    ELSE IF Has(request["claims"]["id_token"]["acr"], "value")
    THEN <<request["claims"]["id_token"]["acr"]["value"]>>
    ELSE IF Has(request["claims"]["id_token"]["acr"], "values")
    THEN request["claims"]["id_token"]["acr"]["values"]
    ELSE <<>>

BrokerHas(acr) == \E i \in DOMAIN authn_broker : authn_broker[i].acr = acr

TierOrder == <<"", "better", "any">>

\* the broker was asked for exact matches only, in request order, up to the
\* first match, which is what was picked
ExactInOrder(run, acrs) ==
    /\ Len(run.queries) <= Len(acrs)
    /\ \A i \in DOMAIN run.queries : run.queries[i] = <<"exact", acrs[i]>>
    /\ \A i \in DOMAIN run.queries : i < Len(run.queries) => ~BrokerHas(acrs[i])
    /\ IF run.picked = None
       THEN Len(run.queries) = Len(acrs) /\ \A i \in DOMAIN acrs : ~BrokerHas(acrs[i])
       ELSE /\ run.picked[1].acr = acrs[Len(run.queries)]
            /\ \E i \in DOMAIN authn_broker :
                   /\ authn_broker[i] = run.picked[1]
                   /\ \A j \in 1..(i - 1) : authn_broker[j].acr # run.picked[1].acr

\* the tiers were asked in the order default, better, any, up to the first that
\* answered, which is what was picked
TiersInOrder(run) ==
    /\ Len(run.queries) \in 1..3
    /\ \A i \in DOMAIN run.queries : run.queries[i] = <<"tier", TierOrder[i]>>
    /\ \A i \in DOMAIN run.queries :
           i < Len(run.queries) => pick_auth(authn_broker, request, TierOrder[i]) = None
    /\ run.picked = pick_auth(authn_broker, request, TierOrder[Len(run.queries)])
    /\ run.picked = None => Len(run.queries) = 3

\* C13 as stated: a request with an ACR claim is answered by exact matches only,
\* and the tiers are tried only when no ACR claim is present.
C13_AcrClaimExactOnly ==
    Picked => IF HasAcrClaim THEN ExactInOrder(result.v, RequestedAcrs)
              ELSE TiersInOrder(result.v)

\* C13 amended: a request whose ACR claim names at least one value is answered
\* by exact matches only, in request order, first match winning; a request whose
\* claim is absent or names no value is answered by the tiers default, better,
\* any, first success winning.
C13_ExactThenTiers ==
    Picked => IF RequestedAcrs # <<>> THEN ExactInOrder(result.v, RequestedAcrs)
              ELSE TiersInOrder(result.v)

\* the second requested ACR matches while the broker's first method would
\* answer the default tier
C13_Witness ==
    /\ Picked
    /\ RequestedAcrs = <<"a3", "a1">>
    /\ Len(authn_broker) = 2
    /\ authn_broker[1].acr = "a2" /\ "" \in authn_broker[1].tiers
    /\ result.v.picked = Some(authn_broker[2])
    /\ result.v.queries = << <<"exact", "a3">>, <<"exact", "a1">> >>

\* no requested ACR has an exact match, or, with no ACR requested, no tier answers
NoMethodSelectable ==
    IF RequestedAcrs # <<>>
    THEN \A i \in DOMAIN RequestedAcrs : ~BrokerHas(RequestedAcrs[i])
    ELSE \A t \in Tiers : pick_auth(authn_broker, request, t) = None

\* C12: when no authentication method can be selected, process_request returns
\* an access_denied error response; no challenge is issued, no session is
\* created and no exception escapes.
C12_NoMethodDenied ==
    (Done /\ NoMethodSelectable) =>
        /\ result.kind = "return"
        /\ Has(result.v, "error") /\ result.v["error"] = "access_denied"
        /\ ~trace.invoked
        /\ trace.created = 0

-----------------------------------------------------------------------------
(* Properties of the liveness check (Spec) *)

\* authenticated_as raised one of the three, or the identity it returned names a
\* session that the store db does not hold, returns as None, or has revoked
IdentityAbsent(env, db) ==
    \/ env.outcome.exc \in {"ToOld", "TamperAllert", "NoSuchAuthentication"}
    \/ /\ env.outcome.exc = "" /\ env.outcome.identity # None
       /\ env.outcome.identity[1].uid.sid # None
       /\ \/ env.outcome.identity[1].uid.sid[1] \notin DOMAIN db
          \/ db[env.outcome.identity[1].uid.sid[1]].revoked

\* C14: when authenticated_as raises ToOld, TamperAllert or NoSuchAuthentication,
\* or the identity's session is missing, None or revoked, setup_auth goes on
\* without identity: the request ends in a challenge or in login_required, never
\* in an authenticated session, and nothing is raised.
C14_AbsentIdentity ==
    [][ ( /\ pc = "parsed" /\ pc' = "done"
          /\ isinstance(parsed, "AuthorizationRequest")
          /\ pick_authn_method(authn_broker, request, request["redirect_uri"]) # None
          /\ IdentityAbsent(trace'.env, sdb) )
        => /\ result'.kind = "return"
           /\ trace'.identity = "None"
           /\ \/ Has(result'.v, "error") /\ result'.v["error"] = "login_required"
              \/ Has(result'.v, "http_response") /\ trace'.invoked
           /\ ~Has(result'.v, "response_args")
           /\ trace'.created = 0
           /\ sdb' = sdb
      ]_vars

\* the cookie names a session that has been revoked, and a challenge is issued
C14_Witness ==
    /\ Done
    /\ trace.env.outcome.identity # None
    /\ trace.env.outcome.identity[1].uid.sid = Some(1)
    /\ 1 \in DOMAIN sdb /\ sdb[1].revoked
    /\ trace.identity = "None" /\ trace.invoked
    /\ Has(result.v, "http_response")

\* C15: for a request that passed validation process_request always returns a
\* value, whatever the collaborators do: an error response, or the inline
\* "Internal error" page when the authentication method's invocation raises.
C15_NoUnhandledFailure ==
    (Done /\ isinstance(parsed, "AuthorizationRequest")) =>
        /\ result.kind = "return"
        /\ (trace.invoked /\ ~trace.env.invoke_ok) =>
               result.v["http_response"].page = "Internal error"
        /\ (trace.created # 0 /\ (trace.env.authz # "ok" \/ ~trace.env.update_ok)) =>
               \E e \in {"access_denied", "server_error"} : ReturnedError(e)

-----------------------------------------------------------------------------
(* Response assembly over every list of response types *)

\* longest list of response types in a request
MaxAssemblyTypes == 3

AssemblyTypeLists ==
    SeqsUpTo({"code", "token", "id_token", "none", "device"}, MaxAssemblyTypes) \ {<<>>}

InitAssembly ==
    /\ cdb = MainCdb
    /\ provider_info = EmptyDict
    /\ authn_broker = <<>>
    /\ sdb = <<CodeSession(1)>>
    /\ request \in {Req("c1", rt, <<PlainUri("https://rp/cb")>>, st, <<>>, <<>>) :
                        rt \in AssemblyTypeLists, st \in {<<>>, <<"xyz">>}}
    /\ parsed = NoObj
    /\ result = NoResult
    /\ trace = NoTrace
    /\ pc = "received"

\* create_authn_response for the request and session 1; make_idtoken returns or
\* raises
CallCreateAuthnResponse ==
    /\ pc = "received"
    /\ \E mint_ok \in BOOLEAN :
           LET Returns(car) ==
                   /\ result' = [kind |-> "create_authn_response", v |-> car.info,
                                 sinfo |-> car.sinfo, mint_ok |-> mint_ok]
                   /\ sdb' = car.sdb
           IN  Returns(create_authn_response(request, 1, sdb, mint_ok))
    /\ pc' = "assembled"
    /\ UNCHANGED <<cdb, provider_info, authn_broker, request, parsed, trace>>

NextAssembly == CallCreateAuthnResponse

SpecAssembly == InitAssembly /\ [][NextAssembly]_vars

-----------------------------------------------------------------------------
(* Properties of response assembly (SpecAssembly) *)

AssembledResponse == pc = "assembled" /\ result.kind = "create_authn_response"

AssemblyArgs == result.v["response_args"]

AssemblySucceeded == AssembledResponse /\ AssemblyArgs.cls = "AuthorizationResponse"

AssemblyFailed(description) ==
    /\ AssembledResponse
    /\ AssemblyArgs.cls = "AuthorizationErrorResponse"
    /\ AssemblyArgs.d["error"] = "invalid_request"
    /\ AssemblyArgs.d["error_description"] = <<description>>

\* the code the session had when the request arrived
IssuedCode == CodeSession(1).code[1]

\* C16: for response types drawn from {code, token, id_token} a successful
\* response has code iff code is requested (the session's code), access_token
\* iff token is requested, id_token iff id_token is requested; it echoes state
\* iff the request has state; for [none] it has none of the three.
C16_ResponseContents ==
    ( /\ AssemblySucceeded
      /\ \/ RequestedTypes \subseteq {"code", "token", "id_token"}
         \/ request["response_type"] = <<"none">> )
        => /\ Has(AssemblyArgs.d, "code") <=> "code" \in RequestedTypes
           /\ Has(AssemblyArgs.d, "code") => AssemblyArgs.d["code"] = IssuedCode
           /\ Has(AssemblyArgs.d, "access_token") <=> "token" \in RequestedTypes
           /\ Has(AssemblyArgs.d, "access_token") =>
                  /\ sdb[1].access_token # None
                  /\ AssemblyArgs.d["access_token"] = sdb[1].access_token[1]
           /\ Has(AssemblyArgs.d, "id_token") <=> "id_token" \in RequestedTypes
           /\ Has(AssemblyArgs.d, "state") <=> Has(request, "state")
           /\ Has(request, "state") => AssemblyArgs.d["state"] = request["state"]

\* the id_token-only response without state
C16_Witness ==
    /\ AssemblySucceeded
    /\ request["response_type"] = <<"id_token">> /\ ~Has(request, "state")
    /\ DOMAIN AssemblyArgs.d = {"id_token", "scope"}

\* the keyword arguments make_idtoken was called with
MintingInputs == result.sinfo[1]

Minted == AssembledResponse /\ result.sinfo # None

\* C17: the ID token is minted after the code and token steps, from exactly:
\* the code of the response iff code is requested, the access token of the
\* response iff token is requested, and user_claims iff id_token is the only
\* response type requested.
C17_MintingInputs ==
    Minted =>
        /\ DOMAIN MintingInputs \subseteq {"code", "access_token", "user_claims"}
        /\ Has(MintingInputs, "code") <=> "code" \in RequestedTypes
        /\ Has(MintingInputs, "code") => MintingInputs["code"] = Some(IssuedCode)
        /\ Has(MintingInputs, "access_token") <=> "token" \in RequestedTypes
        /\ Has(MintingInputs, "access_token") =>
               MintingInputs["access_token"] = sdb[1].access_token
        /\ Has(MintingInputs, "user_claims") <=> RequestedTypes = {"id_token"}

\* C18: assembly fails with invalid_request / unsupported_response_type
\* exactly when some requested response type is not one of code, token,
\* id_token, none.
C18_UnsupportedExactly ==
    AssembledResponse =>
        ( AssemblyFailed("unsupported_response_type")
            <=> ~(RequestedTypes \subseteq {"code", "token", "id_token", "none"}) )

MintingFailed ==
    /\ AssembledResponse
    /\ request["response_type"] # <<"none">>
    /\ "id_token" \in RequestedTypes
    /\ ~result.mint_ok

\* C19: when minting the ID token fails, create_authn_response returns the
\* error invalid_request "Could not sign/encrypt id_token"; the response has no
\* id_token, code or access_token, and no id_token is put on the session.
C19_MintingFailure ==
    MintingFailed =>
        /\ AssemblyFailed("Could not sign/encrypt id_token")
        /\ DOMAIN AssemblyArgs.d \cap {"id_token", "code", "access_token"} = {}
        /\ result.sinfo = None

\* minting fails after a code was attached and a token issued
C19_Witness ==
    /\ MintingFailed
    /\ RequestedTypes = {"code", "token", "id_token"}
    /\ sdb[1].access_token # None
    /\ AssemblyFailed("Could not sign/encrypt id_token")

-----------------------------------------------------------------------------
(* post_authentication on a session that was just created *)

\* every combination of what the collaborators of post_authentication do
PostAuthenticationEnvs ==
    [authz : {"ok", "ToOld", "Exception"}, update_ok : BOOLEAN, revoke : BOOLEAN,
     mint_ok : BOOLEAN, salt : {"s1"}]

\* the store as setup_session leaves it, with or without an earlier session
FreshStores ==
    {setup_session(db, EmptyDict, create_authn_event([user |-> "diana", sid |-> None],
                                                     "salt", "anon", 1)) :
         db \in {<<>>, <<CodeSession(1)>>}}

InitPostAuthentication ==
    /\ cdb = MainCdb
    /\ provider_info = EmptyDict
    /\ authn_broker = <<>>
    /\ sdb \in FreshStores
    /\ request \in AssemblyRequests
    /\ parsed = NoObj
    /\ result = NoResult
    /\ trace = NoTrace
    /\ pc = "authenticated"

\* post_authentication(user, request, sid) for the newest session
CallPostAuthentication ==
    /\ pc = "authenticated"
    /\ \E env \in PostAuthenticationEnvs :
           LET Returns(pa) ==
                   /\ result' = [kind |-> "post_authentication", raised |-> pa.raised,
                                 v |-> pa.ret, env |-> env, sid |-> Len(sdb)]
                   /\ sdb' = pa.sdb
           IN  Returns(post_authentication("diana", request, Len(sdb), sdb, cdb, env))
    /\ pc' = "post_authenticated"
    /\ UNCHANGED <<cdb, provider_info, authn_broker, request, parsed, trace>>

NextPostAuthentication == CallPostAuthentication

SpecPostAuthentication == InitPostAuthentication /\ [][NextPostAuthentication]_vars

-----------------------------------------------------------------------------
(* Properties of post_authentication (SpecPostAuthentication) *)

PostAuthenticated == pc = "post_authenticated" /\ result.kind = "post_authentication"

AuthzFailed == PostAuthenticated /\ result.env.authz # "ok"

UpdateFailed == PostAuthenticated /\ result.env.authz = "ok" /\ ~result.env.update_ok

PostAuthenticationError(error) ==
    /\ result.raised = ""
    /\ Has(result.v, "response_args")
    /\ result.v["response_args"].cls = "AuthorizationErrorResponse"
    /\ result.v["response_args"].d["error"] = error

\* C20: in post_authentication a failing authorization decision returns
\* access_denied and a failing permission update returns server_error; neither
\* reaches the revocation re-check or the assembly: the response has no code,
\* access_token or id_token, there is no cookie, and the session is not upgraded
\* to a token.
C20_AuthzAndUpdateFailures ==
    (AuthzFailed \/ UpdateFailed) =>
        /\ AuthzFailed => PostAuthenticationError("access_denied")
        /\ UpdateFailed => PostAuthenticationError("server_error")
        /\ result.v["response_args"].d["error_description"] # <<"Session is revoked">>
        /\ DOMAIN result.v["response_args"].d \cap {"code", "access_token", "id_token"} = {}
        /\ DOMAIN result.v = {"response_args"}
        /\ sdb[result.sid].access_token = None
        /\ sdb[result.sid].code = Some(CodeOf(result.sid))
        /\ sdb[result.sid].permission = None
        /\ ~sdb[result.sid].revoked

\* the permission update fails for a request that asks for a token, with a
\* revocation pending and minting about to fail
C20_Witness ==
    /\ UpdateFailed
    /\ "token" \in RequestedTypes
    /\ result.env.revoke /\ ~result.env.mint_ok
    /\ PostAuthenticationError("server_error")

-----------------------------------------------------------------------------
(* Calls of process_request that overlap.  Each of request, parsed, result,   *)
(* trace and pc holds one value per call; a call reads the store in           *)
(* setup_auth, creates its session in setup_session and writes it in          *)
(* post_authentication, and the other calls may run between these.            *)

\* number of calls in flight
MaxCalls == 2

Calls == 1..MaxCalls

\* a request that ends in the session-bound path, one that may not be
\* challenged, and one that fails validation
ConcurrentRequests ==
    {Req("c1", <<"code">>, <<PlainUri("https://rp/cb")>>, <<"xyz">>, <<>>, <<>>),
     Req("c1", <<"id_token", "token">>, <<PlainUri("https://rp/cb")>>, <<"xyz">>, <<>>,
         << <<"none">> >>),
     Req("cx", <<"code">>, <<PlainUri("https://rp/cb")>>, <<"xyz">>, <<>>, <<>>)}

\* the cookie names no identity, an identity without session, or session 1
ConcurrentEnvs ==
    {[DefaultEnv EXCEPT !.outcome = o] :
         o \in {out \in AuthnOutcomes :
                    /\ out.exc = ""
                    /\ out.identity # None => out.identity[1].uid.sid \in {None, Some(1)}}}

\* the collaborators of post_authentication work, or one of them fails
ConcurrentCollaborators == {c \in Collaborators : c.salt = "s1"}

ConcurrentBroker ==
    <<[method |-> "anon", acr |-> "INTERNETPROTOCOLPASSWORD", tiers |-> Tiers]>>

\* what a call keeps between its steps: the result of setup_auth and the
\* session it created
NoCallTrace == [info |-> EmptyDict, sid |-> 0]

InitConcurrent ==
    /\ cdb = MainCdb
    /\ provider_info = EmptyDict
    /\ authn_broker = ConcurrentBroker
    /\ sdb = <<CodeSession(1)>>
    /\ request = [c \in Calls |-> EmptyDict]
    /\ parsed = [c \in Calls |-> NoObj]
    /\ result = [c \in Calls |-> NoResult]
    /\ trace = [c \in Calls |-> NoCallTrace]
    /\ pc = [c \in Calls |-> "idle"]

\* lines 314-357: a request arrives for call c
Receive(c) ==
    /\ pc[c] = "idle"
    /\ \E r \in ConcurrentRequests :
           /\ request' = [request EXCEPT ![c] = r]
           /\ parsed' = [parsed EXCEPT ![c] = post_parse_request(r, r["client_id"], cdb)]
    /\ pc' = [pc EXCEPT ![c] = "parsed"]
    /\ UNCHANGED <<cdb, provider_info, authn_broker, sdb, result, trace>>

\* lines 669-696 and 701-710: process_request up to the call of authz_part2, or
\* to its return on the validation-error, login_required and challenge paths
Authenticate(c) ==
    /\ pc[c] = "parsed"
    /\ IF isinstance(parsed[c], "AuthorizationErrorResponse")
       THEN /\ result' = [result EXCEPT
                              ![c] = Return("AuthorizationErrorResponse", parsed[c].d)]
            /\ pc' = [pc EXCEPT ![c] = "done"]
            /\ UNCHANGED trace
       ELSE \E env \in ConcurrentEnvs :
                LET Goes(info) ==
                        IF info.raised # ""
                        THEN /\ result' = [result EXCEPT ![c] = Raise(info.raised)]
                             /\ pc' = [pc EXCEPT ![c] = "done"]
                             /\ UNCHANGED trace
                        ELSE IF Has(info.ret, "error")
                        THEN /\ result' = [result EXCEPT ![c] = Return("dict", info.ret)]
                             /\ pc' = [pc EXCEPT ![c] = "done"]
                             /\ UNCHANGED trace
                        ELSE IF Has(info.ret, "function")
                        THEN /\ result' =
                                    [result EXCEPT
                                         ![c] = Return("dict",
                                                    ("http_response" :>
                                                         [page |-> info.ret["function"],
                                                          args |-> info.ret["args"]])
                                                    @@ ("return_uri" :>
                                                            request[c]["redirect_uri"]))]
                             /\ pc' = [pc EXCEPT ![c] = "done"]
                             /\ UNCHANGED trace
                        ELSE /\ trace' = [trace EXCEPT ![c].info = info.ret]
                             /\ pc' = [pc EXCEPT ![c] = "authenticated"]
                             /\ UNCHANGED result
                IN  Goes(setup_auth(authn_broker, request[c], request[c]["redirect_uri"],
                                    cdb[request[c]["client_id"]], sdb, EmptyDict, env))
    /\ UNCHANGED <<cdb, provider_info, authn_broker, sdb, request, parsed>>

\* line 631: setup_session
CreateSession(c) ==
    /\ pc[c] = "authenticated"
    /\ sdb' = setup_session(sdb, request[c], trace[c].info["authn_event"])
    /\ trace' = [trace EXCEPT ![c].sid = Len(sdb')]
    /\ pc' = [pc EXCEPT ![c] = "session"]
    /\ UNCHANGED <<cdb, provider_info, authn_broker, request, parsed, result>>

\* lines 633-660: post_authentication and the rest of authz_part2
PostAuthenticate(c) ==
    /\ pc[c] = "session"
    /\ \E env \in ConcurrentCollaborators :
           LET Returns(res) ==
                   /\ result' = [result EXCEPT
                                     ![c] = IF res.raised # "" THEN Raise(res.raised)
                                            ELSE Return("dict", res.ret)]
                   /\ sdb' = res.sdb
           IN  Returns(authz_part2_after_session(trace[c].info["user"], request[c],
                                                 trace[c].sid, sdb, cdb, provider_info,
                                                 env))
    /\ pc' = [pc EXCEPT ![c] = "done"]
    /\ UNCHANGED <<cdb, provider_info, authn_broker, request, parsed, trace>>

NextConcurrent ==
    \E c \in Calls : Receive(c) \/ Authenticate(c) \/ CreateSession(c) \/ PostAuthenticate(c)

SpecConcurrent == InitConcurrent /\ [][NextConcurrent]_vars

-----------------------------------------------------------------------------
(* Properties of overlapping calls (SpecConcurrent) *)

\* setup_auth returned {authn_event, identity, user} to call c
SessionBoundCall(c) == trace[c].info # EmptyDict

\* the step is call c leaving process_request without having called authz_part2
ReturnsEarly(c) == pc[c] = "parsed" /\ pc'[c] = "done"

\* C21: however calls of process_request follow or overlap each other, a call
\* creates exactly one session if setup_auth gave it the session-bound result
\* and none otherwise; the validation-error, login_required and challenge
\* paths return without touching the store; and the only record a call writes
\* is the one it created.
C21_OneOwnSession ==
    [][ /\ Len(sdb') = Len(sdb)
                        + Cardinality({c \in Calls : pc[c] = "authenticated"
                                                     /\ pc'[c] = "session"})
        /\ \A c \in Calls :
               /\ ReturnsEarly(c) => sdb' = sdb /\ trace'[c].sid = 0
               /\ pc'[c] = "done" => (trace'[c].sid # 0 <=> SessionBoundCall(c))
               /\ trace[c].sid # 0 => trace'[c].sid = trace[c].sid
               /\ trace'[c].sid # 0 =>
                      /\ trace'[c].sid \in DOMAIN sdb'
                      /\ \A d \in Calls \ {c} : trace'[d].sid # trace'[c].sid
        /\ \A i \in DOMAIN sdb :
               sdb'[i] # sdb[i] =>
                   \E c \in Calls : /\ pc[c] = "session" /\ pc'[c] = "done"
                                    /\ trace[c].sid = i
      ]_vars

\* two calls under the cookie of session 1 have each created and written a
\* session of their own; session 1 is as it was
C21_Witness ==
    /\ \A c \in 1..2 :
           /\ pc[c] = "done" /\ result[c].kind = "return"
           /\ SessionBoundCall(c)
           /\ trace[c].info["identity"].uid.sid = Some(1)
           /\ trace[c].sid > 1
           /\ sdb[trace[c].sid].permission = Some("any")
    /\ trace[1].sid # trace[2].sid
    /\ request[1]["response_type"] = <<"code">>
    /\ request[2]["response_type"] = <<"id_token", "token">>
    /\ sdb[trace[1].sid].access_token = None
    /\ sdb[trace[2].sid].access_token # None
    /\ sdb[1] = CodeSession(1)

-----------------------------------------------------------------------------
(* Effects of response assembly on the session (SpecAssembly) *)

\* the session as it was when create_authn_response was called
SessionBefore == CodeSession(1)

\* C22: what a successful create_authn_response does to the session depends on
\* the response types alone: the code is cleared iff code is not requested and
\* kept as it was otherwise; the session gets an access token iff token is
\* requested, and never a refresh token; for [none] the record is untouched.
C22_SessionEffects ==
    AssemblySucceeded =>
        IF request["response_type"] = <<"none">>
        THEN sdb = <<SessionBefore>>
        ELSE /\ sdb[1].code = (IF "code" \in RequestedTypes THEN SessionBefore.code ELSE None)
             /\ sdb[1].access_token # None <=> "token" \in RequestedTypes
             /\ sdb[1].refresh_token = None
             /\ ~Has(AssemblyArgs.d, "refresh_token")
             /\ sdb = <<[SessionBefore EXCEPT !.code = sdb[1].code,
                                              !.access_token = sdb[1].access_token]>>

\* a token-only response: the code is cleared and the session upgraded
C22_Witness ==
    /\ AssemblySucceeded
    /\ request["response_type"] = <<"token">>
    /\ sdb[1].code = None
    /\ sdb[1].access_token = Some(TokenOf(1))
    /\ Has(AssemblyArgs.d, "access_token")

-----------------------------------------------------------------------------
(* Properties of prompt (Spec) *)

LoginRequired ==
    /\ Done /\ result.kind = "return" /\ result.cls = "dict"
    /\ Has(result.v, "error") /\ result.v["error"] = "login_required"

\* C23: a request whose prompt contains none is never answered with a
\* challenge, whatever else prompt contains and whether or not an identity is
\* active: no authentication method is invoked, and the outcome is
\* login_required or the session-bound result.
C23_PromptNoneNeverChallenges ==
    (Done /\ PromptContainsNone /\ isinstance(parsed, "AuthorizationRequest")) =>
        /\ ~trace.invoked
        /\ LoginRequired \/ SessionBound

-----------------------------------------------------------------------------
(* setup_auth with a req_user hint over stores that hold sessions of several *)
(* subjects                                                                  *)

Subjects == {"diana", "bob"}

\* a session of subject u
SubjectSession(sid, u) == [CodeSession(sid) EXCEPT !.uid = [user |-> u, sid |-> None]]

\* no session, one, or two of the same or of different subjects
SubjectStores ==
    {<<>>} \cup {<<SubjectSession(1, u)>> : u \in Subjects}
    \cup {<<SubjectSession(1, u), SubjectSession(2, v)>> : u, v \in Subjects}

\* the keyword arguments of setup_auth: no hint, or a hint for a subject, among
\* them one the store never has a session of
HintKwargs == {EmptyDict} \cup {"req_user" :> u : u \in Subjects \cup {"carol"}}

\* authenticated_as finds no identity, or the identity of a subject, which may
\* name session 1
SubjectOutcomes ==
    {[exc |-> "", identity |-> None, ts |-> 0]}
    \cup {[exc |-> "", identity |-> Some([uid |-> [user |-> u, sid |-> k]]), ts |-> 1] :
              u \in Subjects, k \in {None, Some(1)}}

InitSetupAuth ==
    /\ cdb = MainCdb
    /\ provider_info = EmptyDict
    /\ authn_broker = ConcurrentBroker
    /\ sdb \in SubjectStores
    /\ request \in {Req("c1", <<"code">>, <<PlainUri("https://rp/cb")>>, <<"xyz">>, <<>>, p) :
                        p \in {<<>>, << <<"none">> >>, << <<"login">> >>}}
    /\ parsed = NoObj
    /\ result = NoResult
    /\ trace = NoTrace
    /\ pc = "parsed"

\* setup_auth(request, redirect_uri, cinfo, cookie, **kwargs)
CallSetupAuth ==
    /\ pc = "parsed"
    /\ \E kwargs \in HintKwargs, o \in SubjectOutcomes, d \in BOOLEAN :
           LET Returns(info) ==
                   /\ result' = [kind |-> "setup_auth", raised |-> info.raised,
                                 v |-> info.ret]
                   /\ trace' = [kwargs |-> kwargs, outcome |-> o, done |-> d,
                                identity |-> info.identity]
           IN  Returns(setup_auth(authn_broker, request, request["redirect_uri"],
                                  cdb[request["client_id"]], sdb, kwargs,
                                  [DefaultEnv EXCEPT !.outcome = o, !.done = d]))
    /\ pc' = "authenticated"
    /\ UNCHANGED <<cdb, provider_info, authn_broker, sdb, request, parsed>>

NextSetupAuth == CallSetupAuth

SpecSetupAuth == InitSetupAuth /\ [][NextSetupAuth]_vars

-----------------------------------------------------------------------------
(* Properties of the req_user hint (SpecSetupAuth) *)

SetupAuthReturned == pc = "authenticated" /\ result.kind = "setup_auth"

Hinted == SetupAuthReturned /\ Has(trace.kwargs, "req_user")

\* setup_auth returned {authn_event, identity, user}
ReturnedSessionBound == SetupAuthReturned /\ Has(result.v, "user")

\* the sessions of the hinted subject, oldest first
HintedSids == get_sids_by_sub(sdb, trace.kwargs["req_user"])

\* an identity is active and belongs to another subject than the hint names
OtherSubjectActive ==
    /\ Hinted
    /\ trace.identity = "active"
    /\ trace.outcome.identity[1].uid.user # trace.kwargs["req_user"]

\* C24: with a req_user hint, the user of a session-bound result is the uid of
\* the authentication event of the hinted subject's most recent session; an
\* active identity of another subject than the hint names, a subject without
\* any session included, is answered with a challenge, or with login_required
\* when prompt contains none.
C24_IdentityContinuity ==
    /\ (Hinted /\ ReturnedSessionBound /\ HintedSids # <<>>) =>
           result.v["user"] = sdb[HintedSids[Len(HintedSids)]].uid
    /\ OtherSubjectActive =>
           IF PromptContainsNone
           THEN Has(result.v, "error") /\ result.v["error"] = "login_required"
           ELSE Has(result.v, "function")

-----------------------------------------------------------------------------
(* Properties of requests without state (Spec) *)

\* a valid request without state and without response_mode, under a live
\* session, whose authorization, permission update and minting all succeed
StatelessFlow ==
    /\ Authorized /\ ~sdb[trace.created].revoked
    /\ AlreadyAuthenticated
    /\ ~Has(request, "state") /\ ~Has(request, "response_mode")
    /\ request["response_type"] \in SeqsUpTo({"code", "token", "id_token"}, 3)
    /\ trace.env.mint_ok

\* C25: a valid request without state, under a live session, is answered with
\* the success response (the requested code, access_token and id_token, iss and
\* client_id, no state) and a session cookie, as the same request with state
\* would be.
C25_StateOptional ==
    StatelessFlow =>
        /\ ReturnedSuccess
        /\ Has(result.v, "cookie")
        /\ ~Has(ResponseArgs, "state")
        /\ Has(ResponseArgs, "iss") /\ Has(ResponseArgs, "client_id")
        /\ Has(ResponseArgs, "code") <=> "code" \in RequestedTypes
        /\ Has(ResponseArgs, "access_token") <=> "token" \in RequestedTypes
        /\ Has(ResponseArgs, "id_token") <=> "id_token" \in RequestedTypes

-----------------------------------------------------------------------------
(* Properties of errors after response assembly (Spec) *)

\* create_authn_response was called, and the call did not end in a success
\* response
FailedAfterAssembly ==
    /\ Authorized /\ ~sdb[trace.created].revoked
    /\ ~ReturnedSuccess

\* C26: when the session-bound path ends in an error produced at or after
\* response assembly, the session is as it was before assembly: its code is
\* not cleared and it is not upgraded to an access token.
C26_StateUnchangedOnError ==
    FailedAfterAssembly =>
        /\ sdb[trace.created].code = Some(CodeOf(trace.created))
        /\ sdb[trace.created].access_token = None

-----------------------------------------------------------------------------
(* Session state: _compute_session_state on pairs of inputs, and the         *)
(* completions of authz_part2 one after another.  rndstr() answers a value   *)
(* it has not answered before.                                               *)

\* the arguments of _compute_session_state
SessionStateInputs ==
    [state : {"1", "2"}, salt : Salts, client_id : {"c1", "c2"},
     redirect_uri : {PlainUri("https://rp/cb"), PlainUri("https://rp/other"),
                     PlainUri("https://rp:8443/cb")}]

\* the requests that are completed
CompletionRequests ==
    {Req("c1", rt, <<PlainUri("https://rp/cb")>>, <<"xyz">>, <<>>, <<>>) :
         rt \in {<<"code">>, <<"id_token", "token">>}}

InitSessionState ==
    /\ cdb = MainCdb
    /\ provider_info \in ProviderInfos
    /\ authn_broker = <<>>
    /\ sdb = <<>>
    /\ request = EmptyDict
    /\ parsed = NoObj
    /\ result = NoResult
    /\ trace = [used |-> {}]
    /\ pc = "idle"

\* _compute_session_state(state, salt, client_id, redirect_uri) on two inputs
CallComputeSessionState ==
    /\ pc = "idle"
    /\ \E a, b \in SessionStateInputs :
           result' = [kind |-> "_compute_session_state", a |-> a, b |-> b,
                      va |-> compute_session_state(a.state, a.salt, a.client_id,
                                                   a.redirect_uri),
                      vb |-> compute_session_state(b.state, b.salt, b.client_id,
                                                   b.redirect_uri)]
    /\ pc' = "computed"
    /\ UNCHANGED <<cdb, provider_info, authn_broker, sdb, request, parsed, trace>>

\* authz_part2(user, authn_event, request) for an identity authenticated at ts
CallAuthzPart2 ==
    /\ pc = "idle"
    /\ Len(sdb) < MaxSessions
    /\ \E r \in CompletionRequests, ts \in {1, 2}, salt \in Salts \ trace.used :
           LET Returns(out) ==
                   /\ result' = [kind |-> "authz_part2", raised |-> out.raised,
                                 v |-> out.ret, salt |-> salt, ts |-> ts,
                                 used |-> trace.used]
                   /\ sdb' = out.sdb
                   /\ trace' = IF Has(provider_info, "check_session_iframe")
                               THEN [used |-> trace.used \cup {salt}]
                               ELSE trace
           IN  /\ request' = r
               /\ Returns(authz_part2("diana",
                                      create_authn_event([user |-> "diana", sid |-> None],
                                                         "", "anon", ts),
                                      r, sdb, cdb, provider_info,
                                      [DefaultCollaborators EXCEPT !.salt = salt]))
    /\ UNCHANGED <<cdb, provider_info, authn_broker, parsed, pc>>

NextSessionState == CallComputeSessionState \/ CallAuthzPart2

SpecSessionState == InitSessionState /\ [][NextSessionState]_vars

-----------------------------------------------------------------------------
(* Properties of session state (SpecSessionState) *)

Completed ==
    /\ result.kind = "authz_part2" /\ result.raised = ""
    /\ result.v["response_args"].cls = "AuthorizationResponse"

Computed == result.kind = "_compute_session_state"

\* scheme and host/port of the redirect URIs of SessionStateInputs
Origin(uri) ==
    IF uri.base \in {"https://rp/cb", "https://rp/other"} THEN <<"https", "rp">>
    ELSE <<"https", "rp:8443">>

====
